---- MODULE Spec2Model ----
(***************************************************************************)
(* MediTwin Lite: the Severity Assessor (assess_metric_severity), the      *)
(* Trend Comparator (calculate_trends), the classifier, the Fallback       *)
(* Narrative Generator and the handlers of routes/documents.py, over the   *)
(* metric value strings the document store holds.                          *)
(*                                                                         *)
(* A value string is a sequence of lexical tokens [t, v]:                  *)
(*   "int"  an integer literal with value v         ("128")               *)
(*   "dec"  digits '.' one digit, value v tenths     ("6.8" is v = 68)     *)
(*   "%" "/" " "  the percent sign, the slash, white space                 *)
(*   "mg/dL" "mmHg"  unit words;  "txt"  any other non-numeric word        *)
(* so that "6.8%" is <<dec 68, %>> and "135/85 mmHg" is                    *)
(* <<int 135, /, int 85, ws, mmHg>>.  Numbers are held in tenths wherever  *)
(* the code holds a float.                                                 *)
(***************************************************************************)
EXTENDS Integers, Sequences, FiniteSets, TLC

VARIABLES
    metrics,        \* assess_metric_severity: the metrics argument
    severity_data,  \* assess_metric_severity: the returned assessment
    docs,           \* the user's documents collection: id -> document
    clock,          \* the upload clock (datetime.utcnow() of the next upload)
    call,           \* calculate_trends: [current_doc_id, current_metrics] of the last call
    trends,         \* calculate_trends: the returned trends
    text,           \* classify_document_stub: the text of the uploaded file
    classification, \* classify_document_stub: the returned classification
    analysis,       \* generate_fallback_analysis: the returned analysis
    request,        \* explain_document: the document_id of the request
    ai_response,    \* explain_document: what summarize_text did for the request
    prompt,         \* summarize_text: the text generate_content received
    response        \* explain_document: the response or the HTTP error

vars == <<metrics, severity_data, docs, clock, call, trends,
          text, classification, analysis, request, ai_response, prompt, response>>

\* the variables of the classifier, the fallback generator and the endpoint
pipelineVars == <<text, classification, analysis, request, ai_response, prompt, response>>

\* Python's None / a value, for results the code leaves None
None == [some |-> FALSE]
Some(x) == [some |-> TRUE, val |-> x]

\* nothing classified, generated or answered yet
PipelineIdle ==
    /\ text = <<>>
    /\ classification = None
    /\ analysis = None
    /\ request = None
    /\ ai_response = None
    /\ prompt = None
    /\ response = None

MetricKeys == {"hba1c", "glucose", "blood_pressure", "cholesterol"}

\* the order in which both functions take the metrics
MetricOrder == <<"hba1c", "glucose", "blood_pressure", "cholesterol">>

----------------------------------------------------------------------------
(* Value strings *)

Int_(n) == [t |-> "int", v |-> n]
Dec(n) == [t |-> "dec", v |-> n]
Sym(s) == [t |-> s, v |-> 0]

IsWs(tok) == tok.t = " "
IsNum(tok) == tok.t \in {"int", "dec"}

\* str.strip(): leading and trailing white space removed
RECURSIVE LStrip(_)
LStrip(s) == IF s # <<>> /\ IsWs(Head(s)) THEN LStrip(Tail(s)) ELSE s

RECURSIVE RStrip(_)
RStrip(s) ==
    IF s # <<>> /\ IsWs(s[Len(s)]) THEN RStrip(SubSeq(s, 1, Len(s) - 1)) ELSE s

Strip(s) == RStrip(LStrip(s))

\* s.replace('%', '')
ReplacePercent(s) == SelectSeq(s, LAMBDA tok : tok.t # "%")

\* the prefix of s before the first token of type sep (all of s if none)
RECURSIVE TakeUntil(_, _)
TakeUntil(s, sep) ==
    IF s = <<>> \/ Head(s).t = sep THEN <<>>
    ELSE <<Head(s)>> \o TakeUntil(Tail(s), sep)

\* s.split(): the white-space separated words of s
RECURSIVE SplitWs(_)
SplitWs(s) ==
    LET l == LStrip(s)
        w == TakeUntil(l, " ")
    IN IF l = <<>> THEN <<>>
       ELSE <<w>> \o SplitWs(SubSeq(l, Len(w) + 1, Len(l)))

\* s.split('/'): the parts of s between slashes (always at least one part)
RECURSIVE SplitSlash(_)
SplitSlash(s) ==
    LET p == TakeUntil(s, "/")
    IN IF Len(p) = Len(s) THEN <<s>>
       ELSE <<p>> \o SplitSlash(SubSeq(s, Len(p) + 2, Len(s)))

\* The outcome of a conversion: a value, or the exception it raises
Ok(n) == [ok |-> TRUE, val |-> n]
Raise == [ok |-> FALSE, val |-> 0]

\* float(s), in tenths: white space around the literal is ignored
ParseFloat(s) ==
    LET x == Strip(s)
    IN IF Len(x) = 1 /\ IsNum(x[1])
       THEN Ok(IF x[1].t = "int" THEN 10 * x[1].v ELSE x[1].v)
       ELSE Raise

\* int(s): digits only, white space around them ignored
ParseInt(s) ==
    LET x == Strip(s)
    IN IF Len(x) = 1 /\ x[1].t = "int" THEN Ok(x[1].v) ELSE Raise

\* int(seq[i]) and float(seq[i]); seq[i] raises IndexError when i is out of range
IndexInt(seq, i) == IF i <= Len(seq) THEN ParseInt(seq[i]) ELSE Raise
IndexFloat(seq, i) == IF i <= Len(seq) THEN ParseFloat(seq[i]) ELSE Raise

\* metrics.get(key) is truthy: the key is present with a non-empty string
Truthy(m, key) == key \in DOMAIN m /\ m[key] # <<>>

----------------------------------------------------------------------------
(* assess_metric_severity: the per-metric threshold ladders                *)
(* (float(x) >= 9.0 on a one-decimal literal is decided by the tenths: the *)
(* literal "9.0" and the constant 9.0 are the same double and float() is   *)
(* monotone)                                                               *)

Band(level, color, label, alert) ==
    [level |-> level, color |-> color, label |-> label, alert |-> alert]

\* mutant of Hba1cBand: the boundaries compared with > instead of >=
Hba1cBand_Exclusive(hba1c_val) ==
    IF hba1c_val > 90 THEN Band("CRITICAL", "red", "CRITICALLY HIGH", "URGENT")
    ELSE IF hba1c_val > 65 THEN Band("WARNING", "yellow", "DIABETES RANGE", "WARNING")
    ELSE IF hba1c_val > 57 THEN Band("ELEVATED", "yellow", "PREDIABETES", "")
    ELSE Band("NORMAL", "green", "NORMAL", "")

\* hba1c_val in tenths of a percent; alert "" when the band appends no alert
Hba1cBand(hba1c_val) ==
    IF hba1c_val >= 90 THEN Band("CRITICAL", "red", "CRITICALLY HIGH", "URGENT")
    ELSE IF hba1c_val >= 65 THEN Band("WARNING", "yellow", "DIABETES RANGE", "WARNING")
    ELSE IF hba1c_val >= 57 THEN Band("ELEVATED", "yellow", "PREDIABETES", "")
    ELSE Band("NORMAL", "green", "NORMAL", "")

\* mutant of GlucoseBand: the diabetes threshold 126 taken exclusively
GlucoseBand_Exclusive(glucose_val) ==
    IF glucose_val >= 200 THEN Band("CRITICAL", "red", "DANGEROUSLY HIGH", "URGENT")
    ELSE IF glucose_val > 126 THEN Band("WARNING", "red", "DIABETES RANGE", "WARNING")
    ELSE IF glucose_val >= 100 THEN Band("ELEVATED", "yellow", "ELEVATED", "")
    ELSE Band("NORMAL", "green", "NORMAL", "")

GlucoseBand(glucose_val) ==
    IF glucose_val >= 200 THEN Band("CRITICAL", "red", "DANGEROUSLY HIGH", "URGENT")
    ELSE IF glucose_val >= 126 THEN Band("WARNING", "red", "DIABETES RANGE", "WARNING")
    ELSE IF glucose_val >= 100 THEN Band("ELEVATED", "yellow", "ELEVATED", "")
    ELSE Band("NORMAL", "green", "NORMAL", "")

\* mutant of BloodPressureBand: a band needs both components (and for or)
BloodPressureBand_Both(systolic, diastolic) ==
    IF systolic >= 180 /\ diastolic >= 120
    THEN Band("CRITICAL", "red", "HYPERTENSIVE CRISIS", "URGENT")
    ELSE IF systolic >= 140 /\ diastolic >= 90
    THEN Band("WARNING", "red", "HYPERTENSION", "WARNING")
    ELSE IF systolic >= 130 /\ diastolic >= 80
    THEN Band("ELEVATED", "yellow", "ELEVATED", "")
    ELSE Band("NORMAL", "green", "NORMAL", "")

BloodPressureBand(systolic, diastolic) ==
    IF systolic >= 180 \/ diastolic >= 120
    THEN Band("CRITICAL", "red", "HYPERTENSIVE CRISIS", "URGENT")
    ELSE IF systolic >= 140 \/ diastolic >= 90
    THEN Band("WARNING", "red", "HYPERTENSION", "WARNING")
    ELSE IF systolic >= 130 \/ diastolic >= 80
    THEN Band("ELEVATED", "yellow", "ELEVATED", "")
    ELSE Band("NORMAL", "green", "NORMAL", "")

\* mutant of CholesterolBand: the top band rated CRITICAL like the others'
CholesterolBand_Critical(chol_val) ==
    IF chol_val >= 240 THEN Band("CRITICAL", "red", "HIGH", "URGENT")
    ELSE IF chol_val >= 200 THEN Band("ELEVATED", "yellow", "BORDERLINE HIGH", "")
    ELSE Band("NORMAL", "green", "DESIRABLE", "")

CholesterolBand(chol_val) ==
    IF chol_val >= 240 THEN Band("WARNING", "red", "HIGH", "WARNING")
    ELSE IF chol_val >= 200 THEN Band("ELEVATED", "yellow", "BORDERLINE HIGH", "")
    ELSE Band("NORMAL", "green", "DESIRABLE", "")

\* One metric's block: nothing (key falsy, or `except: pass`), or the
\* severity entry and the alert it appends to critical_alerts
Skipped == [sev |-> None, alerts |-> <<>>]

Assessed(key, band, value) ==
    [sev |-> Some([level |-> band.level, color |-> band.color, label |-> band.label,
                   message |-> <<key, band.label, value>>]),
     alerts |-> IF band.alert = "" THEN <<>>
                ELSE << [kind |-> band.alert, metric |-> key, value |-> value] >>]

SeverityHba1c(m) ==
    IF ~Truthy(m, "hba1c") THEN Skipped
    ELSE LET hba1c_val == ParseFloat(ReplacePercent(m["hba1c"]))
         IN IF ~hba1c_val.ok THEN Skipped
            ELSE Assessed("hba1c", Hba1cBand(hba1c_val.val), m["hba1c"])

\* mutant of SeverityGlucose: an unreadable value is assessed as 0
SeverityGlucose_Default(m) ==
    IF ~Truthy(m, "glucose") THEN Skipped
    ELSE LET glucose_val == IndexInt(SplitWs(m["glucose"]), 1)
         IN IF ~glucose_val.ok THEN Assessed("glucose", GlucoseBand(0), m["glucose"])
            ELSE Assessed("glucose", GlucoseBand(glucose_val.val), m["glucose"])

SeverityGlucose(m) ==
    IF ~Truthy(m, "glucose") THEN Skipped
    ELSE LET glucose_val == IndexInt(SplitWs(m["glucose"]), 1)
         IN IF ~glucose_val.ok THEN Skipped
            ELSE Assessed("glucose", GlucoseBand(glucose_val.val), m["glucose"])

\* int(s.split()[0])
ParseFirstWordInt(s) == IndexInt(SplitWs(s), 1)

\* int(bp_parts[1].split()[0]); bp_parts[1] raises IndexError without a '/'
Diastolic(bp_parts) ==
    IF 2 <= Len(bp_parts) THEN ParseFirstWordInt(bp_parts[2]) ELSE Raise

SeverityBloodPressure(m) ==
    IF ~Truthy(m, "blood_pressure") THEN Skipped
    ELSE LET bp_parts == SplitSlash(m["blood_pressure"])
             systolic == ParseInt(bp_parts[1])
             diastolic == Diastolic(bp_parts)
         IN IF ~systolic.ok \/ ~diastolic.ok THEN Skipped
            ELSE Assessed("blood_pressure",
                          BloodPressureBand(systolic.val, diastolic.val),
                          m["blood_pressure"])

SeverityCholesterol(m) ==
    IF ~Truthy(m, "cholesterol") THEN Skipped
    ELSE LET chol_val == IndexInt(SplitWs(m["cholesterol"]), 1)
         IN IF ~chol_val.ok THEN Skipped
            ELSE Assessed("cholesterol", CholesterolBand(chol_val.val), m["cholesterol"])

\* mutant of AlertsOrNone: the list returned as it is, empty or not
AlertsOrNone_List(critical_alerts) == Some(critical_alerts)

\* `critical_alerts if critical_alerts else None`
AlertsOrNone(critical_alerts) ==
    IF critical_alerts # <<>> THEN Some(critical_alerts) ELSE None

assess_metric_severity(m) ==
    LET part == [hba1c |-> SeverityHba1c(m), glucose |-> SeverityGlucose(m),
                 blood_pressure |-> SeverityBloodPressure(m),
                 cholesterol |-> SeverityCholesterol(m)]
        severity == [k \in {j \in MetricKeys : part[j].sev.some} |-> part[k].sev.val]
        critical_alerts == part["hba1c"].alerts \o part["glucose"].alerts
                           \o part["blood_pressure"].alerts \o part["cholesterol"].alerts
    IN [severity |-> severity,
        criticalAlerts |-> AlertsOrNone(critical_alerts),
        hasCritical |-> \E k \in DOMAIN severity : severity[k].level = "CRITICAL",
        hasWarning |-> \E k \in DOMAIN severity :
                            severity[k].level \in {"CRITICAL", "WARNING"}]

----------------------------------------------------------------------------
(* Double arithmetic on one-decimal values.  A value of a tenths is the    *)
(* double fl(a/10) = M * 2^(e-52), e the binary exponent of a/10 and M the *)
(* nearest integer to a * 2^(52-e) / 10.  With r = (a * 2^(52-e)) mod 10   *)
(* the rounding error 10*fl(a/10) - a is -r * 2^(e-52) when r < 5 and      *)
(* (10 - r) * 2^(e-52) when r > 5 (r = 5 cannot occur: the product is      *)
(* even).  Errors are held in units of 2^-56.                              *)

\* the binary exponent e of a/10: 10 * 2^e <= a < 20 * 2^e   (a >= 1)
RECURSIVE Exponent(_)
Exponent(a) ==
    IF a >= 20 THEN Exponent(a \div 2) + 1
    ELSE IF a < 10 THEN Exponent(2 * a) - 1
    ELSE 0

RECURSIVE Pow2(_)
Pow2(n) == IF n = 0 THEN 1 ELSE 2 * Pow2(n - 1)

\* 2^k mod 10 for k >= 1
Pow2Mod10(k) == CASE k % 4 = 0 -> 6 [] k % 4 = 1 -> 2 [] k % 4 = 2 -> 4 [] k % 4 = 3 -> 8

\* 10 * float("a/10") - a for a >= 1, in units of 2^-56
FloatErrorPos(a) ==
    LET e == Exponent(a)
        r == ((a % 10) * Pow2Mod10(52 - e)) % 10
    IN (IF r < 5 THEN 0 - r ELSE 10 - r) * Pow2(e + 4)

\* the same for any a: rounding is symmetric about 0
FloatError(a) ==
    IF a = 0 THEN 0
    ELSE IF a > 0 THEN FloatErrorPos(a)
    ELSE 0 - FloatErrorPos(0 - a)

\* float(a/10) - float(b/10) > t/10, the constant t/10 a double as well: the
\* subtraction is exact where the difference is near the constant, so the
\* rounding errors of the three conversions decide the equal case
FloatDiffGt(a, b, t) ==
    IF a - b # t THEN a - b > t
    ELSE FloatError(a) - FloatError(b) > FloatError(t)

\* change > t/10 for change = float(a/10) - float(b/10)
FloatDiffExceeds(a, b, t) == FloatDiffGt(a, b, t)

\* change < -t/10 (float subtraction is antisymmetric)
FloatDiffBelow(a, b, t) == FloatDiffExceeds(b, a, t)

\* int(x) of a float of d tenths: truncation toward zero
TruncTenths(d) == IF d >= 0 THEN d \div 10 ELSE 0 - ((0 - d) \div 10)

\* mutant of RoundPercent: truncated toward minus infinity instead of rounded
RoundPercent_Floor(change, prev_val, tie_up) == (1000 * change) \div prev_val

\* round((change / prev_val) * 100, 1) in tenths of a percent, for change and
\* prev_val > 0 in the same unit.  The double quotient of an exact tie lies on
\* either side of it: tie_up says which.
RoundPercent(change, prev_val, tie_up) ==
    LET n == 1000 * change
        f == n \div prev_val
        r == n % prev_val
    IN IF 2 * r < prev_val THEN f
       ELSE IF 2 * r > prev_val THEN f + 1
       ELSE IF tie_up THEN f + 1 ELSE f

----------------------------------------------------------------------------
(* calculate_trends *)

\* the docs_ref query's window: .limit(10)
HistoryLimit == 10

\* order_by("uploadDate", direction="DESCENDING"): the ids, newest first
RECURSIVE OrderByUploadDateDesc(_, _)
OrderByUploadDateDesc(store, ids) ==
    IF ids = {} THEN <<>>
    ELSE LET newest == CHOOSE i \in ids :
                            \A j \in ids : store[j].uploadDate <= store[i].uploadDate
         IN <<newest>> \o OrderByUploadDateDesc(store, ids \ {newest})

\* mutant of Limit: the window not truncated
Limit_None(seq, n) == seq

Limit(seq, n) == IF Len(seq) <= n THEN seq ELSE SubSeq(seq, 1, n)

\* all_docs: the ids of the 10 most recent documents, newest first
AllDocs(store) == Limit(OrderByUploadDateDesc(store, DOMAIN store), HistoryLimit)

\* current_index (1-based), 0 when the loop finds no document with the id
CurrentIndex(all_docs, current_doc_id) ==
    IF \E i \in DOMAIN all_docs : all_docs[i] = current_doc_id
    THEN CHOOSE i \in DOMAIN all_docs :
            /\ all_docs[i] = current_doc_id
            /\ \A j \in DOMAIN all_docs : all_docs[j] = current_doc_id => i <= j
    ELSE 0

\* "up" if change > t else "down" if change < -t else "stable"
Direction(a, b, t) ==
    IF FloatDiffExceeds(a, b, t) THEN "up"
    ELSE IF FloatDiffBelow(a, b, t) THEN "down"
    ELSE "stable"

Arrow(a, b, t) ==
    IF FloatDiffExceeds(a, b, t) THEN "ARROW_UP"
    ELSE IF FloatDiffBelow(a, b, t) THEN "ARROW_DOWN"
    ELSE "ARROW_RIGHT"

\* the outcome of one metric's block: not entered, an entry, or an exception
NotCompared == [raised |-> FALSE, entry |-> None]
Compared(entry) == [raised |-> FALSE, entry |-> Some(entry)]
Raised == [raised |-> TRUE, entry |-> None]

\* mutant of BothPresent: a metric missing from the previous report counts
BothPresent_CurrentOnly(current_metrics, previous_metrics, key) ==
    Truthy(current_metrics, key)

\* if current_metrics.get(key) and previous_metrics.get(key)
BothPresent(current_metrics, previous_metrics, key) ==
    Truthy(current_metrics, key) /\ Truthy(previous_metrics, key)

\* `... if prev_val > 0 else 0`
PercentGuard(prev_val) == prev_val > 0

\* values in tenths of a percent; change is round(change, 1) in tenths
CompareHba1c(cur, prev, tie_up) ==
    LET curr_val == ParseFloat(ReplacePercent(cur))
        prev_val == ParseFloat(ReplacePercent(prev))
        change == curr_val.val - prev_val.val
    IN IF ~curr_val.ok \/ ~prev_val.ok THEN Raised
       ELSE Compared(
            [current |-> cur, previous |-> prev,
             change |-> change,
             changePercent |-> IF PercentGuard(prev_val.val)
                               THEN RoundPercent(change, prev_val.val, tie_up) ELSE 0,
             direction |-> Direction(curr_val.val, prev_val.val, 1),
             arrow |-> Arrow(curr_val.val, prev_val.val, 1),
             isImproving |-> FloatDiffBelow(curr_val.val, prev_val.val, 1)])

\* float(...split()[0]) in tenths of mg/dL; change is int(change) in mg/dL
CompareGlucose(cur, prev, tie_up) ==
    LET curr_val == IndexFloat(SplitWs(cur), 1)
        prev_val == IndexFloat(SplitWs(prev), 1)
        change == curr_val.val - prev_val.val
    IN IF ~curr_val.ok \/ ~prev_val.ok THEN Raised
       ELSE Compared(
            [current |-> cur, previous |-> prev,
             change |-> TruncTenths(change),
             changePercent |-> IF PercentGuard(prev_val.val)
                               THEN RoundPercent(change, prev_val.val, tie_up) ELSE 0,
             direction |-> Direction(curr_val.val, prev_val.val, 50),
             arrow |-> Arrow(curr_val.val, prev_val.val, 50),
             isImproving |-> FloatDiffBelow(curr_val.val, prev_val.val, 50)])

\* an integer comparison change > t, change < -t
IntDirection(change, t) ==
    IF change > t THEN "up" ELSE IF change < 0 - t THEN "down" ELSE "stable"

IntArrow(change, t) ==
    IF change > t THEN "ARROW_UP"
    ELSE IF change < 0 - t THEN "ARROW_DOWN" ELSE "ARROW_RIGHT"

\* systolic only: int(...split('/')[0]); no changePercent
CompareBloodPressure(cur, prev) ==
    LET curr_systolic == ParseInt(SplitSlash(cur)[1])
        prev_systolic == ParseInt(SplitSlash(prev)[1])
        change == curr_systolic.val - prev_systolic.val
    IN IF ~curr_systolic.ok \/ ~prev_systolic.ok THEN Raised
       ELSE Compared(
            [current |-> cur, previous |-> prev,
             change |-> change,
             direction |-> IntDirection(change, 5),
             arrow |-> IntArrow(change, 5),
             isImproving |-> change < 0 - 5])

\* int(...split()[0]); no changePercent
CompareCholesterol(cur, prev) ==
    LET curr_val == IndexInt(SplitWs(cur), 1)
        prev_val == IndexInt(SplitWs(prev), 1)
        change == curr_val.val - prev_val.val
    IN IF ~curr_val.ok \/ ~prev_val.ok THEN Raised
       ELSE Compared(
            [current |-> cur, previous |-> prev,
             change |-> change,
             direction |-> IntDirection(change, 10),
             arrow |-> IntArrow(change, 10),
             isImproving |-> change < 0 - 10])

\* m[key]; a missing key raises KeyError, as converting "" does, so it is ""
Subscript(m, key) == IF key \in DOMAIN m THEN m[key] ELSE <<>>

\* one metric's block of the comparison
CompareMetric(key, current_metrics, previous_metrics, tie_up) ==
    IF ~BothPresent(current_metrics, previous_metrics, key) THEN NotCompared
    ELSE LET cur == Subscript(current_metrics, key)
             prev == Subscript(previous_metrics, key)
         IN CASE key = "hba1c" -> CompareHba1c(cur, prev, tie_up[key])
              [] key = "glucose" -> CompareGlucose(cur, prev, tie_up[key])
              [] key = "blood_pressure" -> CompareBloodPressure(cur, prev)
              [] key = "cholesterol" -> CompareCholesterol(cur, prev)

NoChanges == [k \in {} |-> None]

\* the blocks from the i-th on, all inside the one try: an exception in a
\* block leaves trends["changes"] as the blocks before it made it
RECURSIVE CompareFrom(_, _, _, _)
CompareFrom(i, current_metrics, previous_metrics, tie_up) ==
    IF i > Len(MetricOrder) THEN NoChanges
    ELSE LET key == MetricOrder[i]
             block == CompareMetric(key, current_metrics, previous_metrics, tie_up)
             rest == CompareFrom(i + 1, current_metrics, previous_metrics, tie_up)
         IN IF block.raised THEN NoChanges
            ELSE IF block.entry.some
            THEN [k \in {key} \cup DOMAIN rest |->
                    IF k = key THEN block.entry.val ELSE rest[k]]
            ELSE rest

NoTrends == [hasPreviousReport |-> FALSE, previousDate |-> None, changes |-> NoChanges]

\* tie_up: which way the double quotient of an exact changePercent tie falls
calculate_trends(current_doc_id, current_metrics, store, tie_up) ==
    LET all_docs == AllDocs(store)
        current_index == CurrentIndex(all_docs, current_doc_id)
    IN IF current_index = 0 \/ current_index >= Len(all_docs) THEN NoTrends
       ELSE LET previous_doc == store[all_docs[current_index + 1]]
                previous_metrics == previous_doc.metrics
            IN IF DOMAIN previous_metrics = {} THEN NoTrends
               ELSE [hasPreviousReport |-> TRUE,
                     previousDate |-> Some(previous_doc.uploadDate),
                     changes |-> CompareFrom(1, current_metrics, previous_metrics,
                                             tie_up)]

----------------------------------------------------------------------------
(* Inputs: value strings in the format the extractor stores, and the       *)
(* variants and malformed strings a stored value can also be               *)

Hba1cStr(n) == <<Dec(n), Sym("%")>>                                  \* "6.8%"
MgDlStr(n) == <<Int_(n), Sym(" "), Sym("mg/dL")>>                     \* "128 mg/dL"
BpStr(s, d) == <<Int_(s), Sym("/"), Int_(d), Sym(" "), Sym("mmHg")>>  \* "135/85 mmHg"

\* how far around each threshold the sampled values reach
Margin == 1

Near(thresholds) == UNION {(t - Margin)..(t + Margin) : t \in thresholds}

Hba1cOdd ==
    { <<>>, <<Sym("txt")>>, <<Sym("txt"), Sym("%")>>,        \* "", "high", "n.a.%"
      <<Int_(9), Sym("%")>>,                                  \* "9%"
      <<Dec(65), Sym(" "), Sym("%")>> }                       \* "6.5 %"

GlucoseOdd ==
    { <<>>, <<Sym("txt")>>, <<Sym(" ")>>,                    \* "", "high", " "
      <<Dec(1285), Sym(" "), Sym("mg/dL")>>,                  \* "128.5 mg/dL"
      <<Int_(126)>> }                                         \* "126"

BloodPressureOdd ==
    { <<>>, <<Int_(135)>>, <<Int_(135), Sym("/")>>,          \* "", "135", "135/"
      <<Int_(135), Sym("/"), Sym("txt")>>,                    \* "135/high"
      <<Sym("txt"), Sym("/"), Int_(85)>>,                     \* "high/85"
      <<Int_(140), Sym("/"), Int_(85)>> }                     \* "140/85"

CholesterolOdd ==
    { <<>>, <<Sym("txt")>>, <<Int_(240)>> }                  \* "", "high", "240"

\* every sampled string of a metric: the values around its thresholds
SeverityStrings(key) ==
    CASE key = "hba1c" -> {Hba1cStr(n) : n \in Near({57, 65, 90})} \cup Hba1cOdd
      [] key = "glucose" -> {MgDlStr(n) : n \in Near({100, 126, 200})} \cup GlucoseOdd
      [] key = "blood_pressure" ->
            {BpStr(sy, di) : sy \in Near({130, 140, 180}), di \in Near({80, 90, 120})}
            \cup BloodPressureOdd
      [] key = "cholesterol" -> {MgDlStr(n) : n \in Near({200, 240})} \cup CholesterolOdd

\* one string of a metric per outcome: each band, and unparseable
SeverityRepresentatives(key) ==
    CASE key = "hba1c" -> {Hba1cStr(n) : n \in {50, 60, 70, 95}} \cup {<<Sym("txt")>>}
      [] key = "glucose" -> {MgDlStr(n) : n \in {90, 110, 150, 250}} \cup {<<Sym("txt")>>}
      [] key = "blood_pressure" ->
            {BpStr(120, 70), BpStr(135, 85), BpStr(150, 95), BpStr(190, 125)}
            \cup {<<Int_(135)>>}
      [] key = "cholesterol" -> {MgDlStr(n) : n \in {180, 220, 260}} \cup {<<Sym("txt")>>}

\* a key of the mapping: absent, or present with a string
Options(strings) == {None} \cup {Some(x) : x \in strings}

MkMetrics(h, g, b, c) ==
    LET o == [hba1c |-> h, glucose |-> g, blood_pressure |-> b, cholesterol |-> c]
    IN [k \in {j \in MetricKeys : o[j].some} |-> o[k].val]

\* the options of `key` in the mappings that study `studied`: all its sampled
\* strings when it is the studied metric, else its representatives
SeverityOptions(key, studied) ==
    Options(IF key = studied THEN SeverityStrings(key)
            ELSE SeverityRepresentatives(key))

----------------------------------------------------------------------------
(* SpecSeverity: assess_metric_severity applied to every sampled mapping *)

NoDocs == [d \in {} |-> None]

SeverityInit ==
    /\ \E studied \in MetricKeys :
         \E h \in SeverityOptions("hba1c", studied),
            g \in SeverityOptions("glucose", studied),
            b \in SeverityOptions("blood_pressure", studied),
            c \in SeverityOptions("cholesterol", studied) :
                metrics = MkMetrics(h, g, b, c)
    /\ severity_data = None
    /\ docs = NoDocs
    /\ clock = 1
    /\ call = None
    /\ trends = None
    /\ PipelineIdle

Assess ==
    /\ ~severity_data.some
    /\ severity_data' = Some(assess_metric_severity(metrics))
    /\ UNCHANGED <<metrics, docs, clock, call, trends>>
    /\ UNCHANGED pipelineVars

SeverityNext == Assess

SpecSeverity == SeverityInit /\ [][SeverityNext]_vars

----------------------------------------------------------------------------
(* The Severity Assessor's claims, under SpecSeverity *)

Assessment == severity_data.val
LevelOf(key) == Assessment.severity[key].level

\* the number the hba1c string parses to (tenths of a percent)
Hba1cParsed ==
    IF Truthy(metrics, "hba1c") THEN ParseFloat(ReplacePercent(metrics["hba1c"]))
    ELSE Raise

GlucoseParsed ==
    IF Truthy(metrics, "glucose") THEN IndexInt(SplitWs(metrics["glucose"]), 1)
    ELSE Raise

CholesterolParsed ==
    IF Truthy(metrics, "cholesterol")
    THEN IndexInt(SplitWs(metrics["cholesterol"]), 1)
    ELSE Raise

SystolicParsed ==
    IF Truthy(metrics, "blood_pressure")
    THEN ParseInt(SplitSlash(metrics["blood_pressure"])[1])
    ELSE Raise

DiastolicParsed ==
    IF Truthy(metrics, "blood_pressure")
    THEN Diastolic(SplitSlash(metrics["blood_pressure"]))
    ELSE Raise

\* C1: whenever the hba1c value parses to x, hba1c gets exactly one level:
\* CRITICAL iff x >= 9.0, WARNING iff 6.5 <= x < 9.0, ELEVATED iff
\* 5.7 <= x < 6.5, NORMAL iff x < 5.7.
C1_Hba1cLadder ==
    (severity_data.some /\ Hba1cParsed.ok) =>
        LET x == Hba1cParsed.val
        IN /\ "hba1c" \in DOMAIN Assessment.severity
           /\ LevelOf("hba1c") \in {"CRITICAL", "WARNING", "ELEVATED", "NORMAL"}
           /\ LevelOf("hba1c") = "CRITICAL" <=> x >= 90
           /\ LevelOf("hba1c") = "WARNING" <=> (65 <= x /\ x < 90)
           /\ LevelOf("hba1c") = "ELEVATED" <=> (57 <= x /\ x < 65)
           /\ LevelOf("hba1c") = "NORMAL" <=> x < 57

\* hba1c exactly on the 6.5 boundary has been assessed WARNING
C1_Witness ==
    /\ severity_data.some
    /\ Hba1cParsed.ok /\ Hba1cParsed.val = 65
    /\ LevelOf("hba1c") = "WARNING"

Rank(level) ==
    CASE level = "NORMAL" -> 0 [] level = "ELEVATED" -> 1
      [] level = "WARNING" -> 2 [] level = "CRITICAL" -> 3

\* the ladder of the blood pressure table, highest band first
C2_Expected(sy, di) ==
    IF sy >= 180 \/ di >= 120 THEN "CRITICAL"
    ELSE IF sy >= 140 \/ di >= 90 THEN "WARNING"
    ELSE IF sy >= 130 \/ di >= 80 THEN "ELEVATED"
    ELSE "NORMAL"

\* the level assess_metric_severity gives the canonical string of (sy, di)
C2_LevelAt(sy, di) ==
    SeverityBloodPressure([blood_pressure |-> BpStr(sy, di)]).sev.val.level

\* C2: whenever blood_pressure parses to (sys, dia), its level is CRITICAL iff
\* sys >= 180 or dia >= 120, otherwise WARNING iff sys >= 140 or dia >= 90,
\* otherwise ELEVATED iff sys >= 130 or dia >= 80, otherwise NORMAL; and no
\* reading with components at least as high gets a lower level.
C2_BloodPressureLadder ==
    (severity_data.some /\ SystolicParsed.ok /\ DiastolicParsed.ok) =>
        LET sy == SystolicParsed.val
            di == DiastolicParsed.val
        IN /\ "blood_pressure" \in DOMAIN Assessment.severity
           /\ LevelOf("blood_pressure") = C2_Expected(sy, di)
           /\ \A sy2 \in Near({130, 140, 180}), di2 \in Near({80, 90, 120}) :
                (sy2 >= sy /\ di2 >= di) =>
                    Rank(C2_LevelAt(sy2, di2)) >= Rank(LevelOf("blood_pressure"))

\* a reading whose diastolic alone reaches the WARNING band (135/90)
C2_Witness ==
    /\ severity_data.some
    /\ SystolicParsed.ok /\ DiastolicParsed.ok
    /\ SystolicParsed.val < 140 /\ DiastolicParsed.val = 90
    /\ LevelOf("blood_pressure") = "WARNING"

\* C3: whenever the glucose value parses to an integer g, glucose gets exactly
\* one level: CRITICAL iff g >= 200, WARNING iff 126 <= g < 200, ELEVATED iff
\* 100 <= g < 126, NORMAL iff g < 100.
C3_GlucoseLadder ==
    (severity_data.some /\ GlucoseParsed.ok) =>
        LET g == GlucoseParsed.val
        IN /\ "glucose" \in DOMAIN Assessment.severity
           /\ LevelOf("glucose") \in {"CRITICAL", "WARNING", "ELEVATED", "NORMAL"}
           /\ LevelOf("glucose") = "CRITICAL" <=> g >= 200
           /\ LevelOf("glucose") = "WARNING" <=> (126 <= g /\ g < 200)
           /\ LevelOf("glucose") = "ELEVATED" <=> (100 <= g /\ g < 126)
           /\ LevelOf("glucose") = "NORMAL" <=> g < 100

\* glucose exactly on the 126 boundary has been assessed WARNING
C3_Witness ==
    /\ severity_data.some
    /\ GlucoseParsed.ok /\ GlucoseParsed.val = 126
    /\ LevelOf("glucose") = "WARNING"

\* C4: whenever the cholesterol value parses to an integer c, cholesterol is
\* WARNING iff c >= 240, ELEVATED iff 200 <= c < 240, NORMAL iff c < 200 and
\* never CRITICAL; hasCritical is true only if another metric is CRITICAL.
C4_CholesterolLadder ==
    (severity_data.some /\ CholesterolParsed.ok) =>
        LET c == CholesterolParsed.val
        IN /\ "cholesterol" \in DOMAIN Assessment.severity
           /\ LevelOf("cholesterol") \in {"WARNING", "ELEVATED", "NORMAL"}
           /\ LevelOf("cholesterol") = "WARNING" <=> c >= 240
           /\ LevelOf("cholesterol") = "ELEVATED" <=> (200 <= c /\ c < 240)
           /\ LevelOf("cholesterol") = "NORMAL" <=> c < 200
           /\ Assessment.hasCritical =>
                \E k \in DOMAIN Assessment.severity \ {"cholesterol"} :
                    LevelOf(k) = "CRITICAL"

\* cholesterol in its highest band is the only assessed metric
C4_Witness ==
    /\ severity_data.some
    /\ CholesterolParsed.ok /\ CholesterolParsed.val >= 240
    /\ DOMAIN Assessment.severity = {"cholesterol"}
    /\ LevelOf("cholesterol") = "WARNING"
    /\ ~Assessment.hasCritical

\* the metrics at WARNING or CRITICAL, in evaluation order
C5_Alerting ==
    SelectSeq(MetricOrder,
              LAMBDA k : /\ k \in DOMAIN Assessment.severity
                         /\ LevelOf(k) \in {"WARNING", "CRITICAL"})

\* C5: criticalAlerts holds exactly one alert per metric at WARNING or
\* CRITICAL, in the order hba1c, glucose, blood_pressure, cholesterol, and is
\* null, not an empty list, when there is none; so it is non-null iff
\* hasWarning, and hasCritical implies hasWarning.
C5_CriticalAlerts ==
    severity_data.some =>
        LET alerts == Assessment.criticalAlerts
        IN /\ C5_Alerting = <<>> => alerts = None
           /\ C5_Alerting # <<>> =>
                /\ alerts.some
                /\ [i \in DOMAIN alerts.val |-> alerts.val[i].metric] = C5_Alerting
           /\ alerts.some <=> Assessment.hasWarning
           /\ Assessment.hasCritical => Assessment.hasWarning

\* all four metrics alert at once
C5_Witness ==
    /\ severity_data.some
    /\ C5_Alerting = MetricOrder
    /\ Assessment.hasCritical

\* all four metrics are assessed and none alerts: criticalAlerts is null
C5_WitnessNull ==
    /\ severity_data.some
    /\ DOMAIN Assessment.severity = MetricKeys
    /\ C5_Alerting = <<>>
    /\ Assessment.criticalAlerts = None

----------------------------------------------------------------------------
(* The documents collection and the call of calculate_trends *)

\* a stored document: upload_document writes uploadDate and metrics once
Doc(uploadDate, m) == [uploadDate |-> uploadDate, metrics |-> m]

TieChoices == [{"hba1c", "glucose"} -> BOOLEAN]

\* explain_document: trends = calculate_trends(document_id, user_id, metrics)
\* for a stored document and its stored metrics
CalculateTrends ==
    /\ ~call.some
    /\ \E id \in DOMAIN docs :
        /\ call' = Some([current_doc_id |-> id, current_metrics |-> docs[id].metrics])
        /\ trends' \in {Some(calculate_trends(id, docs[id].metrics, docs, tie_up)) :
                            tie_up \in TieChoices}
    /\ UNCHANGED <<metrics, severity_data, docs, clock>>
    /\ UNCHANGED pipelineVars

\* the request ends: its trends go out with the response and are not kept
Respond ==
    /\ call.some
    /\ call' = None
    /\ trends' = None
    /\ UNCHANGED <<metrics, severity_data, docs, clock>>
    /\ UNCHANGED pipelineVars

----------------------------------------------------------------------------
(* SpecHistory: uploads fill the collection past the query's window; the   *)
(* upload times are distinct and increasing                                *)

\* the number of uploads explored: one more than the window holds
MaxDocs == 11

NoMetrics == [k \in {} |-> None]

\* what an upload extracts here: nothing, or an HbA1c and a glucose value
HistoryMetrics == {NoMetrics, [hba1c |-> Hba1cStr(70), glucose |-> MgDlStr(120)]}

HistoryInit ==
    /\ metrics = NoMetrics
    /\ severity_data = None
    /\ docs = NoDocs
    /\ clock = 1
    /\ call = None
    /\ trends = None
    /\ PipelineIdle

\* upload_document: doc_ref.set(doc_data) under a fresh id, uploadDate = now
Upload ==
    /\ ~call.some
    /\ clock <= MaxDocs
    /\ \E m \in HistoryMetrics :
        docs' = [id \in DOMAIN docs \cup {clock} |->
                    IF id = clock THEN Doc(clock, m) ELSE docs[id]]
    /\ clock' = clock + 1
    /\ UNCHANGED <<metrics, severity_data, call, trends>>
    /\ UNCHANGED pipelineVars

HistoryNext == Upload \/ CalculateTrends \/ Respond

SpecHistory == HistoryInit /\ [][HistoryNext]_vars

----------------------------------------------------------------------------
(* The claims on the history window, under SpecHistory *)

Trends == trends.val
Target == call.val.current_doc_id

\* the ids of the stored documents uploaded after document id
NewerThan(id) == {j \in DOMAIN docs : docs[j].uploadDate > docs[id].uploadDate}
OlderThan(id) == {j \in DOMAIN docs : docs[j].uploadDate < docs[id].uploadDate}

\* the latest document uploaded before document id
Predecessor(id) ==
    CHOOSE j \in OlderThan(id) :
        \A k \in OlderThan(id) : docs[k].uploadDate <= docs[j].uploadDate

\* the target and its predecessor both lie in the window of the
\* HistoryLimit most recent documents, and the predecessor has metrics
C6_Comparable(id) ==
    /\ OlderThan(id) # {}
    /\ Cardinality(NewerThan(id)) + 2 <= HistoryLimit
    /\ DOMAIN docs[Predecessor(id)].metrics # {}

\* C6: hasPreviousReport is true iff the target is in the window of the 10
\* most recent documents (newest first), is not its last element, and the
\* next element has a non-empty metrics mapping; previousDate is then that
\* element's uploadDate.  Otherwise hasPreviousReport = false, previousDate =
\* null and changes is empty.
C6_PreviousReport ==
    trends.some =>
        /\ Trends.hasPreviousReport <=> C6_Comparable(Target)
        /\ Trends.hasPreviousReport =>
                Trends.previousDate = Some(docs[Predecessor(Target)].uploadDate)
        /\ ~Trends.hasPreviousReport =>
                /\ Trends.previousDate = None
                /\ DOMAIN Trends.changes = {}

\* the collection holds more documents than the window; the target is the
\* tenth most recent, so its predecessor is cut off, and has metrics
C6_Witness ==
    /\ trends.some
    /\ Cardinality(DOMAIN docs) > HistoryLimit
    /\ Cardinality(NewerThan(Target)) = HistoryLimit - 1
    /\ DOMAIN docs[Predecessor(Target)].metrics # {}
    /\ ~Trends.hasPreviousReport

----------------------------------------------------------------------------
(* SpecTrends: calculate_trends on a report and its predecessor, over      *)
(* values around each metric's stable band                                 *)

\* how far beyond the stable band the sampled differences reach
TrendSpread == 2

\* 0, base, and the values at distance band .. band + TrendSpread - 1 of base
TrendValues(base, band) ==
    {0, base} \cup {base + band + j : j \in 0..(TrendSpread - 1)}
              \cup {base - band - j : j \in 0..(TrendSpread - 1)}

TrendStrings(key) ==
    CASE key = "hba1c" ->
            {Hba1cStr(n) : n \in TrendValues(70, 1) \cup {75}}
            \cup {<<>>, <<Sym("txt")>>, <<Int_(7), Sym("%")>>}     \* "", "high", "7%"
      [] key = "glucose" ->
            {MgDlStr(n) : n \in TrendValues(120, 5)}
            \cup {<<>>, <<Sym("txt")>>, <<Sym(" ")>>,              \* "", "high", " "
                  <<Int_(0 - 5), Sym(" "), Sym("mg/dL")>>,          \* "-5 mg/dL"
                  MgDlStr(80), MgDlStr(81)}       \* 1/80: an exact changePercent tie
      [] key = "blood_pressure" ->
            {BpStr(n, 85) : n \in TrendValues(130, 5)}
            \cup {<<>>, <<Sym("txt"), Sym("/"), Int_(85)>>,        \* "", "high/85"
                  <<Int_(130)>>}                                    \* "130"
      [] key = "cholesterol" ->
            {MgDlStr(n) : n \in TrendValues(200, 10)}
            \cup {<<>>, <<Sym("txt")>>}                            \* "", "high"

\* the value of a metric that is present but not under study
PlainString(key) ==
    CASE key = "hba1c" -> Hba1cStr(70)
      [] key = "glucose" -> MgDlStr(120)
      [] key = "blood_pressure" -> BpStr(130, 85)
      [] key = "cholesterol" -> MgDlStr(200)

\* which of the metrics not under study a report has: none, all, the first
\* or the last of them in the order of the blocks
OthersChoices == {"none", "all", "first", "last"}

OthersPresent(studied, others) ==
    LET rest == SelectSeq(MetricOrder, LAMBDA k : k # studied)
    IN CASE others = "none" -> {}
         [] others = "all" -> MetricKeys \ {studied}
         [] others = "first" -> {rest[1]}
         [] others = "last" -> {rest[Len(rest)]}

\* a report: `studied` absent or with one of its strings, and the chosen ones
\* of the other metrics
TrendMetrics(studied, option, others) ==
    LET O(key) == IF key = studied THEN option
                  ELSE IF key \in OthersPresent(studied, others)
                       THEN Some(PlainString(key)) ELSE None
    IN MkMetrics(O("hba1c"), O("glucose"), O("blood_pressure"), O("cholesterol"))

TrendsInit ==
    /\ metrics = NoMetrics
    /\ severity_data = None
    /\ \E studied \in MetricKeys :
         \E prev \in Options(TrendStrings(studied)), cur \in Options(TrendStrings(studied)),
            prev_others \in OthersChoices, cur_others \in OthersChoices :
                docs = [id \in {1, 2} |->
                            IF id = 1 THEN Doc(1, TrendMetrics(studied, prev, prev_others))
                            ELSE Doc(2, TrendMetrics(studied, cur, cur_others))]
    /\ clock = 3
    /\ call = None
    /\ trends = None
    /\ PipelineIdle

TrendsNext == CalculateTrends \/ Respond

SpecTrends == TrendsInit /\ [][TrendsNext]_vars

----------------------------------------------------------------------------
(* The Trend Comparator's claims, under SpecTrends *)

CurrentMetrics == call.val.current_metrics
PreviousMetrics == docs[Predecessor(Target)].metrics

\* the number calculate_trends reads from the metric's string: tenths for
\* hba1c and glucose (floats), units for blood_pressure (systolic) and
\* cholesterol (ints)
TrendValue(key, m) ==
    IF ~Truthy(m, key) THEN Raise
    ELSE CASE key = "hba1c" -> ParseFloat(ReplacePercent(m[key]))
           [] key = "glucose" -> IndexFloat(SplitWs(m[key]), 1)
           [] key = "blood_pressure" -> ParseInt(SplitSlash(m[key])[1])
           [] key = "cholesterol" -> IndexInt(SplitWs(m[key]), 1)

\* the stable band of the claim's table, in the unit of TrendValue
StableBand(key) ==
    CASE key = "hba1c" -> 1 [] key = "glucose" -> 50
      [] key = "blood_pressure" -> 5 [] key = "cholesterol" -> 10

Delta(key) == TrendValue(key, CurrentMetrics).val - TrendValue(key, PreviousMetrics).val

ArrowOf(direction) ==
    CASE direction = "up" -> "ARROW_UP" [] direction = "down" -> "ARROW_DOWN"
      [] direction = "stable" -> "ARROW_RIGHT"

\* C7: for each compared metric, with delta = current - previous and stable
\* band b (0.1 hba1c, 5 glucose, 5 blood_pressure, 10 cholesterol), direction
\* is "stable" iff |delta| <= b, "up" iff delta > b, "down" iff delta < -b;
\* arrow agrees with direction; isImproving iff direction is "down"; and
\* hba1c 7.0% against 7.5% gives change -0.5, "down", isImproving.
C7_Direction ==
    trends.some =>
        \A key \in DOMAIN Trends.changes :
            LET e == Trends.changes[key]
                b == StableBand(key)
            IN /\ e.direction = "stable" <=> (0 - b <= Delta(key) /\ Delta(key) <= b)
               /\ e.direction = "up" <=> Delta(key) > b
               /\ e.direction = "down" <=> Delta(key) < 0 - b
               /\ e.arrow = ArrowOf(e.direction)
               /\ e.isImproving <=> e.direction = "down"
               /\ (key = "hba1c" /\ TrendValue(key, CurrentMetrics).val = 70
                                 /\ TrendValue(key, PreviousMetrics).val = 75) =>
                    (e.change = 0 - 5 /\ e.direction = "down" /\ e.isImproving)

\* what holds of the code: C7 for every compared metric whose difference is
\* not exactly the hba1c band of 0.1, where the doubles decide
C7_OffTheHba1cBand ==
    trends.some =>
        \A key \in DOMAIN Trends.changes :
            LET e == Trends.changes[key]
                b == StableBand(key)
            IN (key = "hba1c" => Delta(key) \notin {0 - b, b}) =>
                /\ e.direction = "stable" <=> (0 - b <= Delta(key) /\ Delta(key) <= b)
                /\ e.direction = "up" <=> Delta(key) > b
                /\ e.direction = "down" <=> Delta(key) < 0 - b
                /\ e.arrow = ArrowOf(e.direction)
                /\ e.isImproving <=> e.direction = "down"

\* every value of the mapping is one calculate_trends can read (the MetricSet
\* invariant: each present value string is re-parseable)
WellFormed(m) == \A k \in DOMAIN m : TrendValue(k, m).ok

PercentKeys == {"hba1c", "glucose"}

Abs(n) == IF n >= 0 THEN n ELSE 0 - n

\* a previous value of 0 keeps the metric in changes (both reports MetricSets)
C9_ZeroKept ==
    (Trends.hasPreviousReport /\ WellFormed(CurrentMetrics) /\ WellFormed(PreviousMetrics)) =>
        \A key \in PercentKeys \cap DOMAIN CurrentMetrics \cap DOMAIN PreviousMetrics :
            TrendValue(key, PreviousMetrics).val = 0 => key \in DOMAIN Trends.changes

\* C9 as stated: changePercent (in tenths of a percent) equals
\* change / previous * 100 when previous is non-zero and 0 when previous is 0,
\* and a previous value of 0 does not remove the metric from changes.
C9_ExactPercent ==
    trends.some =>
        /\ \A key \in PercentKeys \cap DOMAIN Trends.changes :
            LET prev_val == TrendValue(key, PreviousMetrics).val
            IN /\ prev_val # 0 =>
                    Trends.changes[key].changePercent * prev_val = 1000 * Delta(key)
               /\ prev_val = 0 => Trends.changes[key].changePercent = 0
        /\ C9_ZeroKept

\* C9 amended: changePercent is change / previous * 100 rounded to one decimal
\* place when previous is greater than 0, and 0 when previous is 0 (or below);
\* a previous value of 0 does not remove the metric from changes.
C9_RoundedPercent ==
    trends.some =>
        /\ \A key \in PercentKeys \cap DOMAIN Trends.changes :
            LET prev_val == TrendValue(key, PreviousMetrics).val
                percent == Trends.changes[key].changePercent
            IN /\ prev_val > 0 =>
                    2 * Abs(percent * prev_val - 1000 * Delta(key)) <= prev_val
               /\ prev_val <= 0 => percent = 0
        /\ C9_ZeroKept

\* glucose compared against a previous value of 0: in changes, changePercent 0
C9_Witness ==
    /\ trends.some
    /\ "glucose" \in DOMAIN Trends.changes
    /\ TrendValue("glucose", PreviousMetrics).val = 0
    /\ Delta("glucose") > 0
    /\ Trends.changes["glucose"].changePercent = 0

\* C10: a metric that fails to evaluate does not block the others: every
\* metric present and parseable in both the target and the predecessor is in
\* changes.
C10_FailureIsolated ==
    (trends.some /\ Trends.hasPreviousReport) =>
        \A key \in MetricKeys :
            (TrendValue(key, CurrentMetrics).ok /\ TrendValue(key, PreviousMetrics).ok)
                => key \in DOMAIN Trends.changes

----------------------------------------------------------------------------
(* The text of an uploaded file, as classify_document_stub reads it: a      *)
(* sequence of phrases, each a record with t = "date", "word" or "value".  *)
(* A regular expression of the code is modelled by the phrases it matches; *)
(* re.search returns the first of them in the text.                        *)

\* re.search: the first of the phrases a pattern matches, or None
FirstMatch(hits) == IF hits = <<>> THEN None ELSE Some(hits[1])

----------------------------------------------------------------------------
(* extract_report_date *)

\* a date phrase: "Date: 02-01-2025" has label "DATE" and is numeric with
\* both separators "-", "12 Jan 2025" has label "" and is named; the year is
\* written with ydigits digits (2 to 4)
DatePhrase(label, form, sep1, sep2, day, month, year, ydigits) ==
    [t |-> "date", label |-> label, form |-> form, sep1 |-> sep1, sep2 |-> sep2,
     day |-> day, month |-> month, year |-> year, ydigits |-> ydigits]

\* date_patterns, in list order: a labelled numeric date, a labelled date
\* with a month name, any numeric date
DatePatterns == <<"labelled", "named", "any">>

DatePatternMatches(pattern, ph) ==
    /\ ph.t = "date"
    /\ CASE pattern = "labelled" -> ph.label # "" /\ ph.form = "numeric"
         [] pattern = "named" -> ph.label # "" /\ ph.form = "named"
         [] pattern = "any" -> ph.form = "numeric"

\* the formats tried, in order: '%d-%m-%Y', '%d/%m/%Y', '%d-%m-%y', '%d/%m/%y'
DateFormats ==
    << [sep |-> "-", ylen |-> 4], [sep |-> "/", ylen |-> 4],
       [sep |-> "-", ylen |-> 2], [sep |-> "/", ylen |-> 2] >>

IsLeap(y) == (y % 4 = 0 /\ y % 100 # 0) \/ y % 400 = 0

DaysIn(m, y) ==
    IF m = 2 THEN (IF IsLeap(y) THEN 29 ELSE 28)
    ELSE IF m \in {4, 6, 9, 11} THEN 30 ELSE 31

\* %y: 69..99 are 1969..1999, 0..68 are 2000..2068; %Y is the year itself
FullYear(year, ylen) ==
    IF ylen = 4 THEN year ELSE IF year >= 69 THEN 1900 + year ELSE 2000 + year

\* datetime.strptime(date_str, fmt): Ok(the date) or Raise (ValueError)
Strptime(ph, fmt) ==
    IF /\ ph.form = "numeric"
       /\ ph.sep1 = fmt.sep /\ ph.sep2 = fmt.sep
       /\ ph.ydigits = fmt.ylen
       /\ FullYear(ph.year, fmt.ylen) >= 1
       /\ ph.month \in 1..12
       /\ ph.day \in 1..DaysIn(ph.month, FullYear(ph.year, fmt.ylen))
    THEN Ok([year |-> FullYear(ph.year, fmt.ylen), month |-> ph.month, day |-> ph.day])
    ELSE Raise

\* dt.isoformat(): "YYYY-MM-DDT00:00:00"
IsoFormat(dt) == [kind |-> "iso", year |-> dt.year, month |-> dt.month, day |-> dt.day,
                  time |-> "T00:00:00"]

\* the inner loop over the formats from the i-th on: the first that parses
\* returns; each failure is `except: continue`
RECURSIVE ParseFrom(_, _)
ParseFrom(i, ph) ==
    IF i > Len(DateFormats) THEN None
    ELSE LET dt == Strptime(ph, DateFormats[i])
         IN IF dt.ok THEN Some(IsoFormat(dt.val)) ELSE ParseFrom(i + 1, ph)

ParseDate(ph) == ParseFrom(1, ph)

\* the outer loop over the patterns from the i-th on: a match that parses
\* returns its ISO form; a match that does not parse falls out of the inner
\* loop without an exception, so the next pattern is tried
RECURSIVE ExtractDateFrom(_, _)
ExtractDateFrom(i, txt) ==
    IF i > Len(DatePatterns) THEN None
    ELSE LET match == FirstMatch(SelectSeq(txt,
                            LAMBDA ph : DatePatternMatches(DatePatterns[i], ph)))
         IN IF match.some /\ ParseDate(match.val).some THEN ParseDate(match.val)
            ELSE ExtractDateFrom(i + 1, txt)

extract_report_date(txt) == ExtractDateFrom(1, txt)

----------------------------------------------------------------------------
(* extract_medical_metrics *)

\* a value phrase "<label>[:] <number>[ <unit>]" in the upper-cased text:
\* "FBS: 120 MG/DL" has label "FBS", a colon, the number 120 and its unit
\* ('%' for the HbA1c labels, "MG/DL" or "G/DL" for the others)
ValuePhrase(label, colon, num, unit) ==
    [t |-> "value", label |-> label, colon |-> colon, num |-> num, unit |-> unit]

\* a blood pressure phrase "<label>: <systolic>/<diastolic> MMHG"
PressurePhrase(label, systolic, diastolic) ==
    [t |-> "bp", label |-> label, systolic |-> systolic, diastolic |-> diastolic]

\* the ordered pattern lists; a pattern is named by its place in its list
PatternCount(key) ==
    CASE key = "hba1c" -> 6 [] key = "glucose" -> 9
      [] key = "cholesterol" -> 2 [] key = "hemoglobin" -> 2

\* the labels after which the i-th pattern of a list finds its number; a
\* pattern whose label is the tail of a longer label matches that one too
PatternLabels(key, i) ==
    CASE key = "hba1c" ->
            (CASE i = 1 -> {"HBA1C (GLYCATED HEMOGLOBIN)"}
               [] i = 2 -> {"HBA1C"}
               [] i = 3 -> {"HBA1C"}
               [] i = 4 -> {"GLYCATED HEMOGLOBIN"}
               [] i = 5 -> {"A1C", "HBA1C", "HEMOGLOBIN A1C"}
               [] i = 6 -> {"HEMOGLOBIN A1C"})
      [] key = "glucose" ->
            (CASE i = 1 -> {"FASTING BLOOD GLUCOSE"}
               [] i = 2 -> {"FASTING BLOOD GLUCOSE", "FASTING GLUCOSE"}
               [] i = 3 -> {"FBS"}
               [] i = 4 -> {"FBG"}
               [] i = 5 -> {"RANDOM BLOOD GLUCOSE", "RANDOM GLUCOSE"}
               [] i = 6 -> {"RBS"}
               [] i = 7 -> {"FASTING BLOOD GLUCOSE", "RANDOM BLOOD GLUCOSE",
                            "BLOOD GLUCOSE"}
               [] i = 8 -> {"FASTING BLOOD GLUCOSE", "FASTING GLUCOSE",
                            "RANDOM BLOOD GLUCOSE", "RANDOM GLUCOSE", "BLOOD GLUCOSE",
                            "GLUCOSE"}
               [] i = 9 -> {"BLOOD SUGAR"})
      [] key = "cholesterol" ->
            (CASE i = 1 -> {"TOTAL CHOLESTEROL"}
               [] i = 2 -> {"TOTAL CHOLESTEROL", "CHOLESTEROL"})
      [] key = "hemoglobin" ->
            (CASE i = 1 -> {"HEMOGLOBIN", "GLYCATED HEMOGLOBIN"}
               [] i = 2 -> {"HB"})

\* what a pattern asks for besides the label: the HbA1c patterns 1, 2, 4 and
\* 5 end in \s*%, the first HbA1c pattern takes no colon after the bracket,
\* the first glucose pattern wants white space (no colon) before a whole
\* number and the unit after it
PatternMatches(key, i, ph) ==
    /\ ph.t = "value"
    /\ ph.label \in PatternLabels(key, i)
    /\ (key = "hba1c" /\ i \in {1, 2, 4, 5}) => ph.unit
    /\ (key = "hba1c" /\ i = 1) => ~ph.colon
    /\ (key = "glucose" /\ i = 1) => (~ph.colon /\ ph.unit /\ ph.num.t = "int")

\* float(match.group(1)): the number in tenths
GroupFloat(num) == IF num.t = "int" THEN 10 * num.v ELSE num.v

\* (\d+): the digits before a decimal point
GroupDigits(num) == IF num.t = "int" THEN num.v ELSE num.v \div 10

\* mutant of Stored: no blank between the glucose number and its unit
Stored_Glued(key, num) ==
    CASE key = "hba1c" -> <<Dec(GroupFloat(num)), Sym("%")>>
      [] key = "glucose" -> <<Int_(GroupDigits(num)), Sym("mg/dL")>>
      [] key = "cholesterol" -> <<Int_(GroupDigits(num)), Sym(" "), Sym("mg/dL")>>
      [] key = "hemoglobin" -> <<num, Sym(" "), Sym("g/dL")>>

\* the value string a list stores for the number it matched
Stored(key, num) ==
    CASE key = "hba1c" -> <<Dec(GroupFloat(num)), Sym("%")>>
      [] key = "glucose" -> <<Int_(GroupDigits(num)), Sym(" "), Sym("mg/dL")>>
      [] key = "cholesterol" -> <<Int_(GroupDigits(num)), Sym(" "), Sym("mg/dL")>>
      [] key = "hemoglobin" -> <<num, Sym(" "), Sym("g/dL")>>

\* mutant of SearchFrom: the match that comes first in the text wins,
\* whichever pattern finds it
SearchFrom_Leftmost(key, i, txt) ==
    FirstMatch(SelectSeq(txt,
        LAMBDA ph : \E j \in i..PatternCount(key) : PatternMatches(key, j, ph)))

\* for pattern in patterns: match = re.search(...); if match: ...; break
RECURSIVE SearchFrom(_, _, _)
SearchFrom(key, i, txt) ==
    IF i > PatternCount(key) THEN None
    ELSE LET match == FirstMatch(SelectSeq(txt, LAMBDA ph : PatternMatches(key, i, ph)))
         IN IF match.some THEN match ELSE SearchFrom(key, i + 1, txt)

\* bp_pattern: either label, both numbers of two or three digits
PressureMatches(ph) ==
    /\ ph.t = "bp"
    /\ ph.systolic \in 10..999
    /\ ph.diastolic \in 10..999

\* creatinine_pattern
CreatinineMatches(ph) == ph.t = "value" /\ ph.label = "CREATININE"

ExtractedKeys ==
    {"hba1c", "glucose", "blood_pressure", "cholesterol", "hemoglobin", "creatinine"}

\* the match each key's search ends with
MetricMatch(key, txt) ==
    CASE key = "blood_pressure" -> FirstMatch(SelectSeq(txt, PressureMatches))
      [] key = "creatinine" -> FirstMatch(SelectSeq(txt, CreatinineMatches))
      [] OTHER -> SearchFrom(key, 1, txt)

extract_medical_metrics(txt) ==
    [key \in {k \in ExtractedKeys : MetricMatch(k, txt).some} |->
        LET ph == MetricMatch(key, txt).val
        IN CASE key = "blood_pressure" -> BpStr(ph.systolic, ph.diastolic)
             [] key = "creatinine" -> <<ph.num, Sym(" "), Sym("mg/dL")>>
             [] OTHER -> Stored(key, ph.num)]

----------------------------------------------------------------------------
(* classify_document_stub *)

\* a word of the text that is no part of a value or a date
Word(w) == [t |-> "word", w |-> w]

\* `w in text_upper`: w is a word of the text, or a part of a label
Contains(txt, w) ==
    \E i \in DOMAIN txt :
        \/ txt[i].t = "word" /\ txt[i].w = w
        \/ w = "REPORT" /\ txt[i].t = "date" /\ txt[i].label = "REPORT DATE"

\* mutant of DocumentType: the discharge summary is tested first
DocumentType_DischargeFirst(is_diabetes, txt) ==
    IF Contains(txt, "DISCHARGE") /\ Contains(txt, "SUMMARY") THEN "DISCHARGE_SUMMARY"
    ELSE IF is_diabetes THEN "DIABETES_LAB_REPORT"
    ELSE IF Contains(txt, "PRESCRIPTION") THEN "PRESCRIPTION"
    ELSE IF Contains(txt, "LAB") \/ Contains(txt, "REPORT") THEN "LAB_REPORT"
    ELSE "OTHER"

\* the if/elif ladder over document_type
DocumentType(is_diabetes, txt) ==
    IF is_diabetes THEN "DIABETES_LAB_REPORT"
    ELSE IF Contains(txt, "DISCHARGE") /\ Contains(txt, "SUMMARY") THEN "DISCHARGE_SUMMARY"
    ELSE IF Contains(txt, "PRESCRIPTION") THEN "PRESCRIPTION"
    ELSE IF Contains(txt, "LAB") \/ Contains(txt, "REPORT") THEN "LAB_REPORT"
    ELSE "OTHER"

classify_document_stub(txt) ==
    LET extracted == extract_medical_metrics(txt)
        is_diabetes == Truthy(extracted, "hba1c") \/ Truthy(extracted, "glucose")
    IN [documentType |-> DocumentType(is_diabetes, txt),
        isDiabetesReport |-> is_diabetes,
        reportDate |-> extract_report_date(txt),
        metrics |-> extracted]

----------------------------------------------------------------------------
(* SpecClassify: classify_document_stub applied to sampled texts *)

\* the longest sampled text, in phrases
PhraseCount == 2

\* every text of at most PhraseCount phrases of a set
Texts(phrases) == UNION {[1..n -> phrases] : n \in 0..PhraseCount}

\* numeric dates: 02-01-2025, 02/01/25, 31/02/2025 (no such day), 02-01/2025
\* (mixed separators), 29-02-2024 (leap day), 02-01-202, 02/01/99
NumericDates(label) ==
    { DatePhrase(label, "numeric", "-", "-", 2, 1, 2025, 4),
      DatePhrase(label, "numeric", "/", "/", 2, 1, 25, 2),
      DatePhrase(label, "numeric", "/", "/", 31, 2, 2025, 4),
      DatePhrase(label, "numeric", "-", "/", 2, 1, 2025, 4),
      DatePhrase(label, "numeric", "-", "-", 29, 2, 2024, 4),
      DatePhrase(label, "numeric", "-", "-", 2, 1, 202, 3),
      DatePhrase(label, "numeric", "/", "/", 2, 1, 99, 2) }

\* "3 Apr 2025" after a label; the separators stand for the blanks
NamedDate(label) == DatePhrase(label, "named", " ", " ", 3, 4, 2025, 4)

DateSamples ==
    NumericDates("") \cup NumericDates("DATE")
    \cup {NamedDate("DATE"), DatePhrase("REPORT DATE", "numeric", "-", "-", 5, 6, 2025, 4)}

GlucoseSamples ==
    {ValuePhrase("FASTING BLOOD GLUCOSE", colon, Int_(n), unit) :
        colon \in BOOLEAN, unit \in BOOLEAN, n \in {128, 150}}
    \cup {ValuePhrase(label, TRUE, Int_(n), TRUE) :
            label \in {"FASTING GLUCOSE", "FBS", "FBG", "RANDOM BLOOD GLUCOSE",
                       "RANDOM GLUCOSE", "RBS", "BLOOD GLUCOSE", "GLUCOSE", "BLOOD SUGAR"},
            n \in {128, 150}}
    \cup {ValuePhrase("GLUCOSE", TRUE, Dec(1285), TRUE)}            \* "Glucose: 128.5 mg/dL"

Hba1cSamples ==
    {ValuePhrase("HBA1C (GLYCATED HEMOGLOBIN)", colon, num, unit) :
        colon \in BOOLEAN, unit \in BOOLEAN, num \in {Dec(68), Int_(7)}}
    \cup {ValuePhrase(label, TRUE, num, unit) :
            label \in {"HBA1C", "GLYCATED HEMOGLOBIN", "A1C", "HEMOGLOBIN A1C"},
            unit \in BOOLEAN, num \in {Dec(68), Int_(7)}}

OtherSamples ==
    {ValuePhrase(label, TRUE, Int_(n), TRUE) :
        label \in {"TOTAL CHOLESTEROL", "CHOLESTEROL"}, n \in {210, 250}}
    \cup {ValuePhrase("HEMOGLOBIN", TRUE, Dec(135), TRUE),
          ValuePhrase("HB", TRUE, Int_(13), TRUE),
          ValuePhrase("GLYCATED HEMOGLOBIN", TRUE, Dec(72), TRUE),
          ValuePhrase("CREATININE", TRUE, Dec(12), TRUE),
          PressurePhrase("BLOOD PRESSURE", 135, 85),
          PressurePhrase("BP", 120, 80),
          PressurePhrase("BP", 9, 80)}                              \* "BP: 9/80"

\* the words the document type is read from
TypeWords == <<"DISCHARGE", "SUMMARY", "PRESCRIPTION", "LAB", "REPORT">>

\* the texts that hold the words of a set, a glucose value or not, and a
\* report date or not
TypeTexts ==
    { [i \in DOMAIN SelectSeq(TypeWords, LAMBDA w : w \in ws) |->
            Word(SelectSeq(TypeWords, LAMBDA w : w \in ws)[i]) ] \o value \o date :
        ws \in SUBSET {TypeWords[i] : i \in DOMAIN TypeWords},
        value \in {<<>>, <<ValuePhrase("GLUCOSE", TRUE, Int_(150), TRUE)>>},
        date \in {<<>>, <<DatePhrase("REPORT DATE", "numeric", "-", "-", 5, 6, 2025, 4)>>} }

TextFamilies == {"date", "glucose", "hba1c", "other", "type"}

TextsOf(family) ==
    CASE family = "date" -> Texts(DateSamples)
      [] family = "glucose" -> Texts(GlucoseSamples)
      [] family = "hba1c" -> Texts(Hba1cSamples)
      [] family = "other" -> Texts(OtherSamples)
      [] family = "type" -> TypeTexts

ClassifyInit ==
    /\ metrics = [k \in {} |-> None]
    /\ severity_data = None
    /\ docs = [d \in {} |-> None]
    /\ clock = 1
    /\ call = None
    /\ trends = None
    /\ \E family \in TextFamilies : text \in TextsOf(family)
    /\ classification = None
    /\ analysis = None
    /\ request = None
    /\ ai_response = None
    /\ prompt = None
    /\ response = None

\* classification = classify_document_stub(raw_text.lower())
Classify ==
    /\ ~classification.some
    /\ classification' = Some(classify_document_stub(text))
    /\ UNCHANGED <<metrics, severity_data, docs, clock, call, trends>>
    /\ UNCHANGED <<text, analysis, request, ai_response, prompt, response>>

ClassifyNext == Classify

SpecClassify == ClassifyInit /\ [][ClassifyNext]_vars

----------------------------------------------------------------------------
(* The classifier's claims, under SpecClassify *)

Classification == classification.val

\* what the i-th date pattern finds in the text
DateMatch(i) ==
    FirstMatch(SelectSeq(text, LAMBDA ph : DatePatternMatches(DatePatterns[i], ph)))

\* the date patterns that match somewhere in the text
DateMatching == {i \in DOMAIN DatePatterns : DateMatch(i).some}

\* the match of the first pattern in list order that matches
FirstDateMatch ==
    DateMatch(CHOOSE i \in DateMatching : \A j \in DateMatching : i <= j).val

\* the matched substring, returned as it is
RawDate(ph) == [kind |-> "raw", date_str |-> ph]

\* C11: extract_report_date returns null only when no date pattern matches;
\* when a pattern matches and the matched substring parses under none of the
\* four formats the result is that raw substring, and when it parses the
\* result is its ISO-8601 rendering.
C11_RawFallback ==
    classification.some =>
        /\ Classification.reportDate = None <=> DateMatching = {}
        /\ DateMatching # {} =>
            IF ParseDate(FirstDateMatch).some
            THEN Classification.reportDate = ParseDate(FirstDateMatch)
            ELSE Classification.reportDate = Some(RawDate(FirstDateMatch))

\* what the code does when the first match parses: its ISO form is returned,
\* a two-digit year expanded
C11_ParsedIsIso ==
    (classification.some /\ DateMatching # {} /\ ParseDate(FirstDateMatch).some) =>
        /\ Classification.reportDate = ParseDate(FirstDateMatch)
        /\ Classification.reportDate.val.kind = "iso"
        /\ Classification.reportDate.val.year >= 1969

\* the claim's ladder over the document types
C14_Expected ==
    IF "hba1c" \in DOMAIN Classification.metrics \/ "glucose" \in DOMAIN Classification.metrics
    THEN "DIABETES_LAB_REPORT"
    ELSE IF Contains(text, "DISCHARGE") /\ Contains(text, "SUMMARY") THEN "DISCHARGE_SUMMARY"
    ELSE IF Contains(text, "PRESCRIPTION") THEN "PRESCRIPTION"
    ELSE IF Contains(text, "LAB") \/ Contains(text, "REPORT") THEN "LAB_REPORT"
    ELSE "OTHER"

\* C14: documentType follows the fixed precedence DIABETES_LAB_REPORT (hba1c
\* or glucose extracted), DISCHARGE_SUMMARY (both words), PRESCRIPTION,
\* LAB_REPORT (LAB or REPORT), OTHER; isDiabetesReport is true iff the type is
\* DIABETES_LAB_REPORT, also for a discharge summary or a prescription that
\* holds a glucose value.
C14_TypePrecedence ==
    classification.some =>
        /\ Classification.documentType = C14_Expected
        /\ Classification.isDiabetesReport <=>
                Classification.documentType = "DIABETES_LAB_REPORT"
        /\ Classification.isDiabetesReport <=>
                ("hba1c" \in DOMAIN Classification.metrics
                    \/ "glucose" \in DOMAIN Classification.metrics)

\* a discharge summary that holds a glucose value is a diabetes lab report
C14_Witness ==
    /\ classification.some
    /\ Contains(text, "DISCHARGE") /\ Contains(text, "SUMMARY")
    /\ "glucose" \in DOMAIN Classification.metrics
    /\ Classification.documentType = "DIABETES_LAB_REPORT"
    /\ Classification.isDiabetesReport

\* a text that is a discharge summary and nothing before that in the ladder
C14_WitnessDischarge ==
    /\ classification.some
    /\ Contains(text, "PRESCRIPTION") /\ Contains(text, "LAB")
    /\ Classification.documentType = "DISCHARGE_SUMMARY"
    /\ ~Classification.isDiabetesReport

ListKeys == {"hba1c", "glucose", "cholesterol", "hemoglobin"}

\* the patterns of a key's list that match somewhere in the text
C15_Matching(key) ==
    {i \in 1..PatternCount(key) : \E j \in DOMAIN text : PatternMatches(key, i, text[j])}

C15_First(key) == CHOOSE i \in C15_Matching(key) : \A j \in C15_Matching(key) : i <= j

\* C15: for each metric with an ordered pattern list, the stored value comes
\* from the first pattern in list order that matches anywhere in the text,
\* wherever the later patterns match; absent when no pattern matches.  A
\* fasting blood glucose value beats a bare glucose value in either order.
C15_PatternOrder ==
    classification.some =>
        \A key \in ListKeys :
            /\ key \in DOMAIN Classification.metrics <=> C15_Matching(key) # {}
            /\ C15_Matching(key) # {} =>
                \E j \in DOMAIN text :
                    /\ PatternMatches(key, C15_First(key), text[j])
                    /\ Classification.metrics[key] = Stored(key, text[j].num)
                    /\ \A k \in 1..(j - 1) :
                            ~PatternMatches(key, C15_First(key), text[k])

\* a bare glucose value of 150 comes before a fasting blood glucose value of
\* 128 and the fasting value is stored
C15_Witness ==
    /\ classification.some
    /\ Len(text) = 2
    /\ text[1] = ValuePhrase("GLUCOSE", TRUE, Int_(150), TRUE)
    /\ text[2].t = "value" /\ text[2].label = "FASTING BLOOD GLUCOSE"
    /\ text[2].num = Int_(128)
    /\ Classification.metrics["glucose"] = MgDlStr(128)

----------------------------------------------------------------------------
(* generate_fallback_analysis.  A generated sentence is a record: its       *)
(* template (q), and the value string and the word put into it.  The       *)
(* function has no try: a conversion that raises ends it with the          *)
(* exception.                                                              *)

\* a sentence built from a template, a metric's value string and a word
Sentence(q, value, word) == [q |-> q, value |-> value, word |-> word]

\* a fixed sentence
Fixed(q) == [q |-> q]

\* generic_questions, in pool order
GenericQuestions ==
    << Fixed("How soon should I have a follow-up test"),
       Fixed("What lifestyle modifications would you recommend"),
       Fixed("Are there any medications I should consider"),
       Fixed("Should I be tracking any other health metrics"),
       Fixed("What are realistic targets for me") >>

\* the number of questions the padding stops at: `< 5`
QuestionCount == 5

\* mutant of GenericPass: the pool is appended without the length test
RECURSIVE GenericPass_Unbounded(_, _)
GenericPass_Unbounded(questions, i) ==
    IF i > Len(GenericQuestions) THEN questions
    ELSE LET q == GenericQuestions[i]
         IN IF \A j \in DOMAIN questions : questions[j] # q
            THEN GenericPass_Unbounded(Append(questions, q), i + 1)
            ELSE GenericPass_Unbounded(questions, i + 1)

\* for q in generic_questions (from the i-th on):
\*     if q not in questions and len(questions) < 5: questions.append(q)
RECURSIVE GenericPass(_, _)
GenericPass(questions, i) ==
    IF i > Len(GenericQuestions) THEN questions
    ELSE LET q == GenericQuestions[i]
         IN IF (\A j \in DOMAIN questions : questions[j] # q)
                /\ Len(questions) < QuestionCount
            THEN GenericPass(Append(questions, q), i + 1)
            ELSE GenericPass(questions, i + 1)

\* while len(questions) < 5: one pass over the pool.  A pass that adds
\* nothing would leave the loop running for ever: Raise stands for that.
RECURSIVE PadQuestions(_)
PadQuestions(questions) ==
    IF Len(questions) >= QuestionCount THEN Ok(questions)
    ELSE LET padded == GenericPass(questions, 1)
         IN IF padded = questions THEN Raise ELSE PadQuestions(padded)

\* the value-specific questions, by hba1c, glucose, blood_pressure
SpecificQuestions(m, hba1c_val, glucose_val) ==
    (IF Truthy(m, "hba1c") /\ hba1c_val >= 57
     THEN << Sentence("My HbA1c is ... which indicates ...", m["hba1c"],
                      IF hba1c_val >= 65 THEN "diabetes" ELSE "prediabetes"),
             Sentence("What specific dietary changes ... lower my HbA1c from ...",
                      m["hba1c"], "") >>
     ELSE <<>>)
    \o (IF Truthy(m, "glucose") /\ glucose_val >= 100
        THEN << Sentence("My fasting glucose is ... - how often should I monitor",
                         m["glucose"], ""),
                Sentence("Should I be concerned about my glucose level of ...",
                         m["glucose"], "") >>
        ELSE <<>>)
    \o (IF Truthy(m, "blood_pressure")
        THEN << Sentence("My blood pressure is ...", m["blood_pressure"], "") >>
        ELSE <<>>)

\* findings, for the summary
Findings(m, hba1c_val, glucose_val) ==
    (IF Truthy(m, "hba1c")
     THEN << Sentence("HbA1c of ...", m["hba1c"],
                      IF hba1c_val >= 65 THEN "indicates diabetes"
                      ELSE IF hba1c_val >= 57 THEN "indicates prediabetes"
                      ELSE "is in normal range") >>
     ELSE <<>>)
    \o (IF Truthy(m, "glucose") /\ glucose_val >= 100
        THEN << Sentence("fasting glucose of ... is elevated", m["glucose"],
                         IF glucose_val >= 126 THEN "diabetes range"
                         ELSE "prediabetes range") >>
        ELSE <<>>)

\* the summary: the findings joined, or 'multiple health markers', and the
\* closing sentence chosen by len(findings) > 1
Summary(findings) ==
    [findings |-> findings,
     closing |-> IF Len(findings) > 1 THEN "Several values are outside normal ranges"
                 ELSE "Review the key findings below"]

KeyFindings(m, hba1c_val, glucose_val) ==
    (IF Truthy(m, "hba1c")
     THEN << Sentence("HbA1c is ...", m["hba1c"],
                      IF hba1c_val >= 57 THEN "elevated" ELSE "normal") >>
     ELSE <<>>)
    \o (IF Truthy(m, "glucose")
        THEN << Sentence("Fasting glucose is ...", m["glucose"],
                         IF glucose_val >= 100 THEN "elevated" ELSE "normal") >>
        ELSE <<>>)
    \o (IF Truthy(m, "blood_pressure")
        THEN << Sentence("Blood pressure is ...", m["blood_pressure"], "") >>
        ELSE <<>>)
    \o (IF Truthy(m, "cholesterol")
        THEN << Sentence("Total cholesterol is ...", m["cholesterol"], "") >>
        ELSE <<>>)

\* mutant of Recommendations: the three diet and exercise steps always
Recommendations_Always(m) ==
    << Fixed("Follow a balanced diet"), Fixed("Engage in at least 150 minutes"),
       Fixed("Monitor blood glucose levels") >>
    \o << Fixed("Schedule a follow-up appointment"), Fixed("Keep a log") >>

\* three steps when hba1c or glucose is there, and two always
Recommendations(m) ==
    (IF Truthy(m, "hba1c") \/ Truthy(m, "glucose")
     THEN << Fixed("Follow a balanced diet"), Fixed("Engage in at least 150 minutes"),
             Fixed("Monitor blood glucose levels") >>
     ELSE <<>>)
    \o << Fixed("Schedule a follow-up appointment"), Fixed("Keep a log") >>

\* mutant of FallbackAlerts: the hba1c alert from the diabetes threshold on
FallbackAlerts_Diabetes(m, hba1c_val, glucose_val) ==
    LET critical ==
            (IF Truthy(m, "hba1c") /\ hba1c_val >= 65
             THEN << Fixed("HbA1c is critically high") >> ELSE <<>>)
            \o (IF Truthy(m, "glucose") /\ glucose_val >= 200
                THEN << Fixed("Fasting glucose is dangerously high") >> ELSE <<>>)
    IN IF critical = <<>> THEN None ELSE Some(critical)

\* critical: hba1c >= 9.0, glucose >= 200; None when there is none
FallbackAlerts(m, hba1c_val, glucose_val) ==
    LET critical ==
            (IF Truthy(m, "hba1c") /\ hba1c_val >= 90
             THEN << Fixed("HbA1c is critically high") >> ELSE <<>>)
            \o (IF Truthy(m, "glucose") /\ glucose_val >= 200
                THEN << Fixed("Fasting glucose is dangerously high") >> ELSE <<>>)
    IN IF critical = <<>> THEN None ELSE Some(critical)

\* Ok(analysis), or Raise when float(...) or int(...) raises: every section
\* converts the same strings the same way, so the first conversion decides
generate_fallback_analysis(m) ==
    LET hba1c_val == IF Truthy(m, "hba1c") THEN ParseFloat(ReplacePercent(m["hba1c"]))
                     ELSE Ok(0)
        glucose_val == IF Truthy(m, "glucose") THEN IndexInt(SplitWs(m["glucose"]), 1)
                       ELSE Ok(0)
    IN IF ~hba1c_val.ok \/ ~glucose_val.ok THEN Raise
       ELSE LET questions ==
                    PadQuestions(SpecificQuestions(m, hba1c_val.val, glucose_val.val))
            IN IF ~questions.ok THEN Raise
               ELSE Ok([summary |-> Summary(Findings(m, hba1c_val.val, glucose_val.val)),
                        keyFindings |-> KeyFindings(m, hba1c_val.val, glucose_val.val),
                        doctorQuestions |-> questions.val,
                        recommendations |-> Recommendations(m),
                        criticalAlerts |->
                            FallbackAlerts(m, hba1c_val.val, glucose_val.val)])

----------------------------------------------------------------------------
(* SpecFallback: generate_fallback_analysis applied to every sampled mapping *)

FallbackInit ==
    /\ \E studied \in MetricKeys :
         \E h \in SeverityOptions("hba1c", studied),
            g \in SeverityOptions("glucose", studied),
            b \in SeverityOptions("blood_pressure", studied),
            c \in SeverityOptions("cholesterol", studied) :
                metrics = MkMetrics(h, g, b, c)
    /\ severity_data = None
    /\ docs = NoDocs
    /\ clock = 1
    /\ call = None
    /\ trends = None
    /\ PipelineIdle

\* fallback_analysis = generate_fallback_analysis(metrics, raw_text[:500])
GenerateFallback ==
    /\ ~analysis.some
    /\ analysis' = Some(generate_fallback_analysis(metrics))
    /\ UNCHANGED <<metrics, severity_data, docs, clock, call, trends>>
    /\ UNCHANGED <<text, classification, request, ai_response, prompt, response>>

FallbackNext == GenerateFallback

SpecFallback == FallbackInit /\ [][FallbackNext]_vars

----------------------------------------------------------------------------
(* The Fallback Narrative Generator's claims, under SpecFallback *)

\* the call returned, and what it returned
Returned == analysis.some /\ analysis.val.ok
Analysis == analysis.val.val

\* C12: generate_fallback_analysis returns at least 5 recommendations for
\* every metrics mapping, the empty mapping and a mapping with neither hba1c
\* nor glucose included.
C12_FiveRecommendations ==
    Returned => Len(Analysis.recommendations) >= 5

\* what the code returns: five recommendations with hba1c or glucose present,
\* two without
C12_TwoOrFive ==
    Returned =>
        Len(Analysis.recommendations) =
            IF Truthy(metrics, "hba1c") \/ Truthy(metrics, "glucose") THEN 5 ELSE 2

\* every present value of the mapping parses
AllParseable ==
    /\ Truthy(metrics, "hba1c") => Hba1cParsed.ok
    /\ Truthy(metrics, "glucose") => GlucoseParsed.ok
    /\ Truthy(metrics, "blood_pressure") => (SystolicParsed.ok /\ DiastolicParsed.ok)
    /\ Truthy(metrics, "cholesterol") => CholesterolParsed.ok

\* the metrics the value-specific questions are about, in order
C13_Specific ==
    (IF Truthy(metrics, "hba1c") /\ Hba1cParsed.val >= 57
     THEN <<"hba1c", "hba1c">> ELSE <<>>)
    \o (IF Truthy(metrics, "glucose") /\ GlucoseParsed.val >= 100
        THEN <<"glucose", "glucose">> ELSE <<>>)
    \o (IF Truthy(metrics, "blood_pressure") THEN <<"blood_pressure">> ELSE <<>>)

\* C13: for every mapping with parseable values generate_fallback_analysis
\* terminates and returns exactly 5 doctorQuestions without duplicates: the
\* value-specific ones first (2 for hba1c >= 5.7, 2 for glucose >= 100, 1 for
\* blood_pressure present), the rest from the generic pool in pool order.
C13_FiveQuestions ==
    (analysis.some /\ AllParseable) =>
        /\ analysis.val.ok
        /\ LET qs == Analysis.doctorQuestions
               n == Len(C13_Specific)
           IN /\ Len(qs) = 5
              /\ \A i, j \in DOMAIN qs : i # j => qs[i] # qs[j]
              /\ \A i \in 1..n :
                    /\ "value" \in DOMAIN qs[i]
                    /\ qs[i].value = metrics[C13_Specific[i]]
              /\ \A i \in (n + 1)..5 : qs[i] = GenericQuestions[i - n]

\* three value-specific questions (hba1c and blood pressure) and two generic
C13_Witness ==
    /\ Returned /\ AllParseable
    /\ C13_Specific = <<"hba1c", "hba1c", "blood_pressure">>
    /\ Len(Analysis.doctorQuestions) = 5
    /\ Analysis.doctorQuestions[5] = GenericQuestions[2]

\* the empty mapping: all five questions are the pool
C13_WitnessEmpty ==
    /\ Returned
    /\ DOMAIN metrics = {}
    /\ Analysis.doctorQuestions = GenericQuestions

----------------------------------------------------------------------------
(* upload_document, delete_document and the readers of the stored metrics *)

\* the medical keywords that are part of a label
LabelKeywords(label) ==
    CASE label \in {"FASTING BLOOD GLUCOSE", "RANDOM BLOOD GLUCOSE", "BLOOD GLUCOSE"} ->
            {"BLOOD", "GLUCOSE"}
      [] label \in {"FASTING GLUCOSE", "RANDOM GLUCOSE", "GLUCOSE"} -> {"GLUCOSE"}
      [] label \in {"BLOOD SUGAR", "BLOOD PRESSURE"} -> {"BLOOD"}
      [] label = "HBA1C (GLYCATED HEMOGLOBIN)" -> {"HBA1C", "HEMOGLOBIN"}
      [] label = "HBA1C" -> {"HBA1C"}
      [] label \in {"GLYCATED HEMOGLOBIN", "HEMOGLOBIN A1C", "HEMOGLOBIN"} -> {"HEMOGLOBIN"}
      [] label \in {"TOTAL CHOLESTEROL", "CHOLESTEROL"} -> {"CHOLESTEROL"}
      [] label = "CREATININE" -> {"CREATININE"}
      [] label = "REPORT DATE" -> {"REPORT"}
      [] OTHER -> {}

\* the words of the samples that are medical keywords, and the one that is
\* a non-medical keyword
MedicalWords == {"PATIENT", "HOSPITAL", "LAB", "REPORT", "PRESCRIPTION", "DISCHARGE"}
NonMedicalWords == {"INVOICE"}

\* medical_matches: the medical keywords in the text
MedicalMatches(txt) ==
    UNION { IF txt[i].t = "word"
            THEN (IF txt[i].w \in MedicalWords THEN {txt[i].w} ELSE {})
            ELSE LabelKeywords(txt[i].label) : i \in DOMAIN txt }

\* non_medical_matches
NonMedicalMatches(txt) ==
    {txt[i].w : i \in {j \in DOMAIN txt : txt[j].t = "word" /\ txt[j].w \in NonMedicalWords}}

\* no non-medical keyword and at least 2 medical keywords
is_medical_document(txt) ==
    IF NonMedicalMatches(txt) # {} THEN FALSE
    ELSE IF Cardinality(MedicalMatches(txt)) < 2 THEN FALSE
    ELSE TRUE

\* the response of a request that raises HTTPException
HttpError(status, detail) == [status |-> status, detail |-> detail]

\* doc_data: what upload_document stores
StoredDoc(filename, uploadDate, raw_text, c) ==
    [filename |-> filename, uploadDate |-> uploadDate, rawText |-> raw_text,
     documentType |-> c.documentType, isDiabetesReport |-> c.isDiabetesReport,
     reportDate |-> c.reportDate, metrics |-> c.metrics,
     validationStatus |-> "MEDICAL_VERIFIED"]

\* the result of a handler: its response, and the collection it leaves
Served(resp, store) == [response |-> resp, store |-> store]

\* upload_document: a file that is not a PDF is refused; a text that is not
\* medical is rejected and nothing is stored; otherwise doc_data is set under
\* a fresh id
upload_document(pdf, filename, raw_text, doc_id, now, store) ==
    IF ~pdf THEN Served(HttpError(400, "Only PDFs supported"), store)
    ELSE IF ~is_medical_document(raw_text)
    THEN Served([status |-> 200, success |-> FALSE], store)
    ELSE LET c == classify_document_stub(raw_text)
         IN Served([status |-> 200, success |-> TRUE, documentId |-> doc_id,
                    documentType |-> c.documentType],
                   [id \in DOMAIN store \cup {doc_id} |->
                        IF id = doc_id THEN StoredDoc(filename, now, raw_text, c)
                        ELSE store[id]])

\* delete_document: 404 when the document does not exist, else it is deleted
delete_document(document_id, store) ==
    IF document_id \notin DOMAIN store
    THEN Served(HttpError(404, "Document not found"), store)
    ELSE Served([status |-> 200, success |-> TRUE, documentId |-> document_id],
                [id \in DOMAIN store \ {document_id} |-> store[id]])

\* the number of uploads explored
MaxUploads == 2

\* the texts of the uploaded files: a patient's report with one value phrase
\* of each stored format, one with all of them, one without any, and two
\* that the validation rejects
UploadPhrases ==
    { ValuePhrase("HBA1C", TRUE, Dec(68), TRUE),
      ValuePhrase("HEMOGLOBIN A1C", TRUE, Int_(7), FALSE),
      ValuePhrase("FASTING BLOOD GLUCOSE", FALSE, Int_(128), TRUE),
      ValuePhrase("GLUCOSE", TRUE, Dec(1285), TRUE),
      ValuePhrase("TOTAL CHOLESTEROL", TRUE, Int_(210), TRUE),
      ValuePhrase("HB", TRUE, Dec(135), TRUE),
      ValuePhrase("CREATININE", TRUE, Dec(12), TRUE),
      PressurePhrase("BLOOD PRESSURE", 135, 85),
      PressurePhrase("BP", 120, 80) }

UploadTexts ==
    { <<Word("PATIENT"), Word("HOSPITAL"), ph>> : ph \in UploadPhrases }
    \cup { << Word("PATIENT"), Word("REPORT"),
              ValuePhrase("HBA1C", TRUE, Dec(72), TRUE),
              ValuePhrase("FBS", TRUE, Int_(145), TRUE),
              PressurePhrase("BP", 150, 95),
              ValuePhrase("CHOLESTEROL", TRUE, Int_(250), TRUE) >>,
           <<Word("PATIENT"), Word("PRESCRIPTION")>>,
           <<Word("PATIENT"), Word("INVOICE"), ValuePhrase("GLUCOSE", TRUE, Int_(150), TRUE)>>,
           <<ValuePhrase("FBS", TRUE, Int_(120), TRUE)>> }

StoreInit ==
    /\ metrics = [k \in {} |-> None]
    /\ severity_data = None
    /\ docs = [d \in {} |-> None]
    /\ clock = 1
    /\ call = None
    /\ trends = None
    /\ PipelineIdle

\* POST /upload-document: the id is fresh (uuid4) and the upload time is
\* the clock's; the clock moves on with every stored document
UploadDocument ==
    /\ ~response.some
    /\ clock <= MaxUploads
    /\ \E pdf \in BOOLEAN, txt \in UploadTexts :
        LET served == upload_document(pdf, "report.pdf", txt, clock, clock, docs)
        IN /\ response' = Some(served.response)
           /\ docs' = served.store
           /\ clock' = IF served.store = docs THEN clock ELSE clock + 1
    /\ UNCHANGED <<metrics, severity_data, call, trends>>
    /\ UNCHANGED <<text, classification, analysis, request, ai_response, prompt>>

\* DELETE /documents/{document_id}
DeleteDocument ==
    /\ ~response.some
    /\ \E document_id \in 1..MaxUploads :
        LET served == delete_document(document_id, docs)
        IN /\ request' = Some(document_id)
           /\ response' = Some(served.response)
           /\ docs' = served.store
    /\ UNCHANGED <<metrics, severity_data, clock, call, trends>>
    /\ UNCHANGED <<text, classification, analysis, ai_response, prompt>>

\* the response has gone out: the handler's locals are gone
ResponseSent ==
    /\ response.some
    /\ request' = None
    /\ ai_response' = None
    /\ prompt' = None
    /\ response' = None
    /\ UNCHANGED <<metrics, severity_data, docs, clock, call, trends>>
    /\ UNCHANGED <<text, classification, analysis>>

StoreNext == UploadDocument \/ DeleteDocument \/ ResponseSent

SpecStore == StoreInit /\ [][StoreNext]_vars

\* get_chart_data: the number it reads from a stored value string
ChartValue(key, m) ==
    CASE key = "hba1c" -> ParseFloat(ReplacePercent(m[key]))
      [] key = "glucose" -> IndexInt(SplitWs(m[key]), 1)
      [] key = "blood_pressure" -> ParseInt(SplitSlash(m[key])[1])
      [] key = "cholesterol" -> IndexInt(SplitWs(m[key]), 1)

----------------------------------------------------------------------------
(* The claim on the stored value strings, under SpecStore *)

\* the consumers read the metric's string of m without error: the Severity
\* Assessor gives it a level, the Trend Comparator and the chart read their
\* number, and blood pressure splits into two integers
C16_Reads(key, m) ==
    /\ key \in DOMAIN assess_metric_severity(m).severity
    /\ TrendValue(key, m).ok
    /\ ChartValue(key, m).ok
    /\ key = "blood_pressure" =>
            /\ ParseInt(SplitSlash(m[key])[1]).ok
            /\ Diastolic(SplitSlash(m[key])).ok

\* C16: every value string that extract_medical_metrics produces, so every
\* metrics value in the store after any uploads and deletes, is re-parseable
\* by its consumers: hba1c as a float once '%' is removed, glucose and
\* cholesterol by their first word as an integer, blood_pressure by its two
\* integers around '/'.
C16_Reparseable ==
    \A id \in DOMAIN docs :
        \A key \in MetricKeys \cap DOMAIN docs[id].metrics :
            C16_Reads(key, docs[id].metrics)

\* after an upload and a delete the store holds a report with all four
\* metrics
C16_Witness ==
    /\ Cardinality(DOMAIN docs) < clock - 1
    /\ \E id \in DOMAIN docs : MetricKeys \subseteq DOMAIN docs[id].metrics

----------------------------------------------------------------------------
(* The Severity Assessor's failure isolation, under SpecSeverity *)

\* the metric is present and its value does not parse
Unparseable(key) ==
    /\ Truthy(metrics, key)
    /\ CASE key = "hba1c" -> ~Hba1cParsed.ok
         [] key = "glucose" -> ~GlucoseParsed.ok
         [] key = "blood_pressure" -> ~SystolicParsed.ok \/ ~DiastolicParsed.ok
         [] key = "cholesterol" -> ~CholesterolParsed.ok

\* the mapping without a key
Without(m, key) == [k \in DOMAIN m \ {key} |-> m[k]]

\* C17: a metric that is present but does not parse gets no severity entry
\* and no alert, the call returns, and the levels and alerts of the other
\* metrics are what they are when the unparseable metric is absent.
C17_UnparseableSkipped ==
    severity_data.some =>
        \A key \in MetricKeys :
            Unparseable(key) =>
                /\ key \notin DOMAIN Assessment.severity
                /\ Assessment.criticalAlerts.some =>
                        \A i \in DOMAIN Assessment.criticalAlerts.val :
                            Assessment.criticalAlerts.val[i].metric # key
                /\ Assessment = assess_metric_severity(Without(metrics, key))

\* glucose does not parse and another metric has been assessed with an alert
C17_Witness ==
    /\ severity_data.some
    /\ Unparseable("glucose")
    /\ "glucose" \notin DOMAIN Assessment.severity
    /\ Assessment.hasWarning

----------------------------------------------------------------------------
(* explain_document.  What summarize_text does is an input of the request: *)
(* it raises with a message, or returns a text in which the first '{' to   *)
(* the last '}' is missing, is not JSON, or is a JSON object.              *)

\* summarize_text raised: the message of the exception
AiError(message) == [kind |-> "error", message |-> message]

\* summarize_text returned a text without a brace-delimited span
AiNoJson == [kind |-> "text", json |-> "none"]

\* ... with a brace-delimited span that json.loads rejects
AiBadJson == [kind |-> "text", json |-> "invalid"]

\* ... with a JSON object: field name -> value
AiObject(object) == [kind |-> "text", json |-> "object", object |-> object]

\* the values of a JSON object: a non-empty value of the field, an empty
\* string or list, null
AiFilled(field) == [kind |-> "ai", field |-> field]
AiEmpty == [kind |-> "empty"]
AiNull == [kind |-> "null"]

\* `"429" in error_str or "quota" in error_str.lower()`
IsQuotaError(message) ==
    message \in {"429 Resource has been exhausted", "Quota exceeded for metric",
                 "You exceeded your current quota"}

\* the response of a request that returns; note is None when the response
\* has no note field
Success(document_id, doc, trend_data, severity, ai_analysis, note) ==
    [status |-> 200, success |-> TRUE, documentId |-> document_id,
     filename |-> doc.filename, metrics |-> doc.metrics, trends |-> trend_data,
     severity |-> severity, aiAnalysis |-> ai_analysis, note |-> note]

\* default_questions[:5]: two for hba1c, one for glucose, else three generic
DefaultQuestions(m) ==
    LET specific ==
            (IF Truthy(m, "hba1c")
             THEN << Sentence("My HbA1c is ... - what does this mean", m["hba1c"], ""),
                     Sentence("Should I start medication ... my HbA1c of ...",
                              m["hba1c"], "") >>
             ELSE <<>>)
            \o (IF Truthy(m, "glucose")
                THEN << Sentence("My fasting glucose is ... - what dietary changes",
                                 m["glucose"], "") >>
                ELSE <<>>)
    IN IF specific # <<>> THEN specific
       ELSE << Fixed("What do these results mean for my overall health?"),
               Fixed("Should I make any lifestyle changes"),
               Fixed("How often should I retest these values?") >>

RequiredFields == {"summary", "keyFindings", "doctorQuestions", "recommendations"}

\* `field not in analysis or not analysis[field]`
MissingField(object, field) ==
    field \notin DOMAIN object \/ object[field].kind \in {"empty", "null"}

\* the default a missing required field gets
DefaultField(field, m) ==
    CASE field = "summary" ->
            [kind |-> "default", items |-> <<Fixed("Analysis completed.")>>]
      [] field = "doctorQuestions" -> [kind |-> "default", items |-> DefaultQuestions(m)]
      [] OTHER -> [kind |-> "default", items |-> <<>>]

\* the parsed object with the defaults of the missing required fields, and
\* criticalAlerts null when the object has none
Backfill(object, m) ==
    [field \in DOMAIN object \cup RequiredFields \cup {"criticalAlerts"} |->
        IF field \in RequiredFields
        THEN (IF MissingField(object, field) THEN DefaultField(field, m)
              ELSE object[field])
        ELSE IF field \in DOMAIN object THEN object[field] ELSE AiNull]

\* except Exception as gemini_error: the fallback on a quota error, else
\* HTTP 500; an exception of generate_fallback_analysis leaves the handler
\* and becomes the HTTP 500 of the outer except
OnAiError(document_id, doc, trend_data, severity, message) ==
    IF IsQuotaError(message)
    THEN LET fallback_analysis == generate_fallback_analysis(doc.metrics)
         IN IF ~fallback_analysis.ok THEN HttpError(500, "Analysis failed")
            ELSE Success(document_id, doc, trend_data, severity, fallback_analysis.val,
                         Some("Generated using fallback due to API quota limit"))
    ELSE HttpError(500, "AI service error")

\* mutant of OnAiText: a text without usable JSON is answered from the
\* fallback
OnAiText_Fallback(document_id, doc, trend_data, severity, ai) ==
    IF ai.json = "object"
    THEN Success(document_id, doc, trend_data, severity,
                 Backfill(ai.object, doc.metrics), None)
    ELSE LET fallback_analysis == generate_fallback_analysis(doc.metrics)
         IN IF ~fallback_analysis.ok THEN HttpError(500, "Analysis failed")
            ELSE Success(document_id, doc, trend_data, severity, fallback_analysis.val,
                         Some("Generated using fallback due to API quota limit"))

\* json_match = re.search(r'\{.*\}', ...); json.loads; the defaults
OnAiText(document_id, doc, trend_data, severity, ai) ==
    IF ai.json = "none"
    THEN HttpError(500, "AI response was not in expected JSON format")
    ELSE IF ai.json = "invalid" THEN HttpError(500, "Failed to parse AI response")
    ELSE Success(document_id, doc, trend_data, severity,
                 Backfill(ai.object, doc.metrics), None)

explain_document(document_id, store, ai, tie_up) ==
    IF document_id \notin DOMAIN store THEN HttpError(404, "Document not found")
    ELSE LET doc == store[document_id]
         IN IF doc.rawText = <<>> THEN HttpError(400, "No text found in document")
            ELSE LET trend_data == calculate_trends(document_id, doc.metrics, store, tie_up)
                     severity == assess_metric_severity(doc.metrics)
                 IN IF ai.kind = "error"
                    THEN OnAiError(document_id, doc, trend_data, severity, ai.message)
                    ELSE OnAiText(document_id, doc, trend_data, severity, ai)

----------------------------------------------------------------------------
(* The prompt.  Only the lengths matter: a text is measured in characters, *)
(* and the prompt is the sequence of its parts, each with the characters   *)
(* it has.                                                                 *)

\* a run of n characters of the text that are neither a keyword, a value
\* nor a date
Filler(n) == [t |-> "filler", n |-> n]

\* the decimal digits of a natural number
RECURSIVE Digits(_)
Digits(n) == IF n < 10 THEN 1 ELSE 1 + Digits(n \div 10)

\* len() of a value string
RECURSIVE StrChars(_)
StrChars(s) ==
    IF s = <<>> THEN 0
    ELSE (CASE Head(s).t = "int" -> Digits(Head(s).v)
            [] Head(s).t = "dec" -> Digits(Head(s).v \div 10) + 2
            [] OTHER -> Len(Head(s).t))
         + StrChars(Tail(s))

\* the characters of a phrase of the text as the samples write it: a label,
\* ": " or " ", the number and its unit; a date with two-digit day and month
PhraseChars(ph) ==
    CASE ph.t = "word" -> Len(ph.w)
      [] ph.t = "filler" -> ph.n
      [] ph.t = "value" ->
            Len(ph.label) + (IF ph.colon THEN 2 ELSE 1) + StrChars(<<ph.num>>)
            + (IF ~ph.unit THEN 0
               ELSE IF ph.label \in {"HBA1C", "A1C", "GLYCATED HEMOGLOBIN", "HEMOGLOBIN A1C"}
               THEN 1 ELSE 6)
      [] ph.t = "bp" ->
            Len(ph.label) + 2 + Digits(ph.systolic) + 1 + Digits(ph.diastolic) + 5
      [] ph.t = "date" ->
            (IF ph.label = "" THEN 0 ELSE Len(ph.label) + 2)
            + (IF ph.form = "named" THEN 7 ELSE 6) + ph.ydigits

\* len(raw_text): the phrases, one to a line
RECURSIVE RawChars(_)
RawChars(txt) ==
    IF txt = <<>> THEN 0
    ELSE PhraseChars(Head(txt)) + (IF Len(txt) > 1 THEN 1 ELSE 0) + RawChars(Tail(txt))

\* the lengths the code fixes
HeaderChars == 96           \* "Analyze this ... REPORT TEXT:\n"
RawTextLimit == 3000        \* raw_text[:3000]
ValuesLabelChars == 20      \* "\n\nEXTRACTED VALUES:\n"
NoMetricsChars == 24        \* "No metrics extracted yet"
InstructionChars == 1295    \* "\n\nCreate a JSON response ..." to the end
SummarizeChars == 17        \* "Summarize this:\n\n"
SummarizeLimit == 1000      \* text[:1000]

\* len(metrics_summary): "- KEY: value" for every metric, joined by "\n"
RECURSIVE SummaryChars(_, _)
SummaryChars(m, keys) ==
    IF keys = {} THEN 0
    ELSE LET k == CHOOSE j \in keys : TRUE
         IN 2 + Len(k) + 2 + StrChars(m[k]) + (IF keys = {k} THEN 0 ELSE 1)
            + SummaryChars(m, keys \ {k})

MetricsSummaryChars(m) ==
    IF DOMAIN m = {} THEN NoMetricsChars ELSE SummaryChars(m, DOMAIN m)

\* a part of a text, with the characters of it that are there
Part(name, chars) == [part |-> name, chars |-> chars]

\* prompt = f"""...{raw_text[:3000]}...{metrics_summary}..."""
Prompt(raw_text, m) ==
    << Part("header", HeaderChars),
       Part("raw_text", IF RawChars(raw_text) <= RawTextLimit THEN RawChars(raw_text)
                        ELSE RawTextLimit),
       Part("values_label", ValuesLabelChars),
       Part("metrics_summary", MetricsSummaryChars(m)),
       Part("instructions", InstructionChars) >>

\* parts[:n]: the first n characters of the parts
RECURSIVE Slice(_, _)
Slice(parts, n) ==
    IF parts = <<>> \/ n <= 0 THEN <<>>
    ELSE IF Head(parts).chars <= n
    THEN <<Head(parts)>> \o Slice(Tail(parts), n - Head(parts).chars)
    ELSE << Part(Head(parts).part, n) >>

\* summarize_text: what it hands to model.generate_content
summarize_text(txt) == << Part("summarize", SummarizeChars) >> \o Slice(txt, SummarizeLimit)

----------------------------------------------------------------------------
(* SpecExplain: explain_document requested for a stored document, or for   *)
(* an id the store does not have, with every sampled outcome of the AI     *)
(* call                                                                    *)

\* a stored document as explain_document reads it
ExplainDoc(uploadDate, filename, rawText, m) ==
    [uploadDate |-> uploadDate, filename |-> filename, rawText |-> rawText,
     metrics |-> m]

\* the metrics of the document under request: none, parseable values in the
\* bands of the fallback, and an hba1c or a glucose the fallback cannot parse
ExplainMetrics ==
    { NoMetrics,
      [hba1c |-> Hba1cStr(68), glucose |-> MgDlStr(128)],
      [hba1c |-> Hba1cStr(95), glucose |-> MgDlStr(250), blood_pressure |-> BpStr(150, 95)],
      [blood_pressure |-> BpStr(120, 70), cholesterol |-> MgDlStr(180)],
      [hba1c |-> <<Sym("txt")>>],
      [hba1c |-> <<Sym("txt")>>, glucose |-> MgDlStr(110)],
      [glucose |-> <<Sym("txt")>>],
      [hba1c |-> Hba1cStr(60), glucose |-> <<Dec(1285), Sym(" "), Sym("mg/dL")>>] }

\* the raw text of the document: nothing, a short text, and texts around
\* and beyond the lengths at which it is cut
ExplainTexts ==
    { <<>>, <<Word("PATIENT"), Word("REPORT")>> }
    \cup { <<Word("PATIENT"), Filler(n)>> : n \in {800, 852, 853, 896, 897, 2992, 2993, 5000} }

\* the messages of the exceptions of the AI call
AiMessages ==
    { "429 Resource has been exhausted", "Quota exceeded for metric",
      "503 Service Unavailable", "Deadline exceeded", "API key not valid" }

\* the JSON objects of the AI's answers: complete, empty, without questions,
\* every required field empty
AiObjects ==
    { [f \in RequiredFields \cup {"criticalAlerts"} |-> AiFilled(f)],
      [f \in {} |-> AiNull],
      [f \in RequiredFields \ {"doctorQuestions"} |-> AiFilled(f)],
      [f \in RequiredFields |-> AiEmpty] }

AiOutcomes ==
    {AiError(message) : message \in AiMessages}
    \cup {AiNoJson, AiBadJson}
    \cup {AiObject(object) : object \in AiObjects}

\* the id of a document the store does not have
MissingId == 3

ExplainInit ==
    /\ metrics = NoMetrics
    /\ severity_data = None
    /\ \E m \in ExplainMetrics, rawText \in ExplainTexts, previous \in BOOLEAN :
         docs = [id \in (IF previous THEN {1, 2} ELSE {2}) |->
                    IF id = 2 THEN ExplainDoc(2, "report.pdf", rawText, m)
                    ELSE ExplainDoc(1, "earlier.pdf", <<Word("PATIENT")>>,
                                    [hba1c |-> Hba1cStr(72), glucose |-> MgDlStr(145)])]
    /\ clock = 3
    /\ call = None
    /\ trends = None
    /\ PipelineIdle

\* GET /explain-document/{document_id}
Explain ==
    /\ ~response.some
    /\ \E document_id \in DOMAIN docs \cup {MissingId}, ai \in AiOutcomes,
          tie_up \in TieChoices :
        /\ request' = Some(document_id)
        /\ IF document_id \in DOMAIN docs /\ docs[document_id].rawText # <<>>
           THEN /\ prompt' = Some(summarize_text(Prompt(docs[document_id].rawText,
                                                        docs[document_id].metrics)))
                /\ ai_response' = Some(ai)
           ELSE /\ prompt' = None
                /\ ai_response' = None
        /\ response' = Some(explain_document(document_id, docs, ai, tie_up))
    /\ UNCHANGED <<metrics, severity_data, docs, clock, call, trends>>
    /\ UNCHANGED <<text, classification, analysis>>

ExplainNext == Explain \/ ResponseSent

SpecExplain == ExplainInit /\ [][ExplainNext]_vars

----------------------------------------------------------------------------
(* The claims about explain_document's failure handling, under SpecExplain *)

\* the request reached the AI call: the document exists and has text
Requested == request.some /\ request.val \in DOMAIN docs
RequestedDoc == docs[request.val]
ReachedAi == Requested /\ ai_response.some
Ai == ai_response.val
Response == response.val

\* the hba1c or glucose of the mapping is present and the fallback cannot
\* parse it
FallbackUnparseable(m, key) ==
    /\ Truthy(m, key)
    /\ ~(IF key = "hba1c" THEN ParseFloat(ReplacePercent(m[key]))
         ELSE IndexInt(SplitWs(m[key]), 1)).ok

\* the mapping without its unparseable hba1c and glucose
ParseableOnly(m) ==
    [k \in {j \in DOMAIN m : ~(j \in {"hba1c", "glucose"} /\ FallbackUnparseable(m, j))}
        |-> m[k]]

\* C18: an hba1c or glucose value that does not parse is treated as absent
\* and never propagated: on the quota-fallback path explain_document still
\* returns a success response, and its aiAnalysis is the analysis that
\* generate_fallback_analysis returns when the unparseable metric is absent.
C18_ParseFailureAbsorbed ==
    (ReachedAi /\ Ai.kind = "error" /\ IsQuotaError(Ai.message)) =>
        /\ Response.status = 200
        /\ Ok(Response.aiAnalysis) =
                generate_fallback_analysis(ParseableOnly(RequestedDoc.metrics))

\* what the code does instead: with parseable hba1c and glucose the quota
\* path succeeds with the fallback; with an unparseable one the request
\* fails with HTTP 500
C18_ParseFailureSurfaces ==
    (ReachedAi /\ Ai.kind = "error" /\ IsQuotaError(Ai.message)) =>
        IF \E key \in {"hba1c", "glucose"} : FallbackUnparseable(RequestedDoc.metrics, key)
        THEN Response = HttpError(500, "Analysis failed")
        ELSE /\ Response.status = 200
             /\ Ok(Response.aiAnalysis) = generate_fallback_analysis(RequestedDoc.metrics)

\* C19: when the AI call fails, by quota exhaustion or by any other upstream
\* failure, the request succeeds: success is true, aiAnalysis is the output
\* of generate_fallback_analysis for the document's metrics, metrics, trends
\* and severity are those of the AI path, and a note marks the fallback.
C19_AnyFailureFallsBack ==
    (ReachedAi /\ Ai.kind = "error") =>
        /\ Response.status = 200
        /\ Response.success
        /\ Ok(Response.aiAnalysis) = generate_fallback_analysis(RequestedDoc.metrics)
        /\ Response.metrics = RequestedDoc.metrics
        /\ Response.severity = assess_metric_severity(RequestedDoc.metrics)
        /\ \E tie_up \in TieChoices :
                Response.trends = calculate_trends(request.val, RequestedDoc.metrics,
                                                   docs, tie_up)
        /\ Response.note.some

\* what the code does for a failure that is not a quota error
C19_OtherFailureIs500 ==
    (ReachedAi /\ Ai.kind = "error" /\ ~IsQuotaError(Ai.message)) =>
        Response = HttpError(500, "AI service error")

\* C20: when the AI's text has no JSON object, or its brace-delimited span
\* does not parse, explain_document fails with HTTP 500: the response is not
\* a success and carries no analysis, fallback or other.
C20_MalformedIs500 ==
    (ReachedAi /\ Ai.kind = "text" /\ Ai.json \in {"none", "invalid"}) =>
        /\ Response.status = 500
        /\ "success" \notin DOMAIN Response
        /\ "aiAnalysis" \notin DOMAIN Response

\* a text without JSON answered for a document whose fallback exists
C20_Witness ==
    /\ ReachedAi
    /\ Ai = AiNoJson
    /\ generate_fallback_analysis(RequestedDoc.metrics).ok
    /\ Response.status = 500

\* an unparseable brace span answered likewise
C20_WitnessInvalid ==
    /\ ReachedAi
    /\ Ai = AiBadJson
    /\ generate_fallback_analysis(RequestedDoc.metrics).ok
    /\ Response.status = 500

----------------------------------------------------------------------------
(* The back-fill of the AI's answer, under SpecExplain *)

\* the AI answered with a JSON object
AiAnswered == ReachedAi /\ Ai.kind = "text" /\ Ai.json = "object"

\* the sentences of a field of the fallback analysis
FallbackItems(fallback, field) ==
    IF field = "summary" THEN <<fallback.summary>> ELSE fallback[field]

\* C21: on the AI path, when the parsed JSON omits or leaves empty a required
\* field, the request succeeds and the field of the returned aiAnalysis is
\* the value generate_fallback_analysis produces for the document's metrics:
\* a back-filled doctorQuestions has exactly 5 entries, and a back-filled
\* keyFindings or recommendations is the fallback's list.
C21_BackfillIsFallback ==
    AiAnswered =>
        LET fallback == generate_fallback_analysis(RequestedDoc.metrics)
        IN \A field \in RequiredFields :
            MissingField(Ai.object, field) =>
                /\ Response.status = 200
                /\ Response.aiAnalysis[field].kind = "default"
                /\ field = "doctorQuestions" =>
                        Len(Response.aiAnalysis[field].items) = QuestionCount
                /\ fallback.ok =>
                        Response.aiAnalysis[field].items = FallbackItems(fallback.val, field)

\* what the code does: the request succeeds, an absent keyFindings or
\* recommendations becomes the empty list, an absent summary one fixed
\* sentence, and an absent doctorQuestions at most three questions
C21_BackfillDefaults ==
    AiAnswered =>
        /\ Response.status = 200
        /\ \A field \in RequiredFields :
            MissingField(Ai.object, field) =>
                LET items == Response.aiAnalysis[field].items
                IN CASE field \in {"keyFindings", "recommendations"} -> items = <<>>
                     [] field = "summary" -> items = <<Fixed("Analysis completed.")>>
                     [] field = "doctorQuestions" -> Len(items) \in 1..3

----------------------------------------------------------------------------
(* SpecRequests: every handler of the router on one collection.  A handler *)
(* has no await between its read of the collection and its response, so    *)
(* the requests are served one at a time.                                  *)

\* mutant of get_document: the id put into doc_data reaches the stored
\* document
get_document_Writes(document_id, store) ==
    IF document_id \notin DOMAIN store
    THEN Served(HttpError(500, "404: Document not found"), store)
    ELSE Served([status |-> 200, id |-> document_id, doc_data |-> store[document_id]],
                [id \in DOMAIN store |->
                    IF id = document_id
                    THEN [f \in DOMAIN store[id] \cup {"id"} |->
                            IF f = "id" THEN document_id ELSE store[id][f]]
                    ELSE store[id]])

\* get_document: the HTTPException(404) it raises for a missing document is
\* caught by its own `except Exception` and raised again as HTTP 500 with
\* the text of the exception; else a copy of the document with its id
get_document(document_id, store) ==
    IF document_id \notin DOMAIN store
    THEN Served(HttpError(500, "404: Document not found"), store)
    ELSE Served([status |-> 200, id |-> document_id, doc_data |-> store[document_id]],
                store)

\* list_documents: a copy of every document with its id
list_documents(store) ==
    [status |-> 200,
     documents |-> {[id |-> id, doc_data |-> store[id]] : id \in DOMAIN store}]

\* order_by("uploadDate", direction="ASCENDING"): the ids, oldest first
OrderByUploadDateAsc(store) ==
    LET desc == OrderByUploadDateDesc(store, DOMAIN store)
    IN [i \in 1..Len(desc) |-> desc[Len(desc) + 1 - i]]

\* the documents the chart loop does not skip: `not metrics` skips
Charted(store) ==
    SelectSeq(OrderByUploadDateAsc(store),
              LAMBDA id : DOMAIN store[id].metrics # {})

\* chart_data[key]: a point for every charted document that has the metric
ChartSeries(store, key) ==
    LET having == SelectSeq(Charted(store), LAMBDA id : Truthy(store[id].metrics, key))
    IN [i \in 1..Len(having) |->
            [date |-> store[having[i]].uploadDate,
             value |-> ChartValue(key, store[having[i]].metrics).val]]

\* get_chart_data: a conversion that raises turns the request into HTTP 500
get_chart_data(store) ==
    IF \E id \in DOMAIN store : \E key \in MetricKeys :
            Truthy(store[id].metrics, key) /\ ~ChartValue(key, store[id].metrics).ok
    THEN HttpError(500, "Failed to fetch chart data")
    ELSE [status |-> 200, success |-> TRUE,
          data |-> [key \in MetricKeys |-> ChartSeries(store, key)],
          timeline |-> [i \in 1..Len(Charted(store)) |->
                            [date |-> store[Charted(store)[i]].uploadDate,
                             filename |-> store[Charted(store)[i]].filename,
                             documentType |-> store[Charted(store)[i]].documentType]]]

\* GET /documents/{document_id}
GetDocument ==
    /\ ~response.some
    /\ \E document_id \in 1..MaxUploads :
        LET served == get_document(document_id, docs)
        IN /\ request' = Some(document_id)
           /\ response' = Some(served.response)
           /\ docs' = served.store
    /\ UNCHANGED <<metrics, severity_data, clock, call, trends>>
    /\ UNCHANGED <<text, classification, analysis, ai_response, prompt>>

\* GET /documents
ListDocuments ==
    /\ ~response.some
    /\ response' = Some(list_documents(docs))
    /\ UNCHANGED <<metrics, severity_data, docs, clock, call, trends>>
    /\ UNCHANGED <<text, classification, analysis, request, ai_response, prompt>>

\* GET /chart-data
GetChartData ==
    /\ ~response.some
    /\ response' = Some(get_chart_data(docs))
    /\ UNCHANGED <<metrics, severity_data, docs, clock, call, trends>>
    /\ UNCHANGED <<text, classification, analysis, request, ai_response, prompt>>

RequestsNext ==
    \/ UploadDocument
    \/ GetDocument
    \/ ListDocuments
    \/ Explain
    \/ GetChartData
    \/ DeleteDocument
    \/ ResponseSent

SpecRequests == StoreInit /\ [][RequestsNext]_vars

----------------------------------------------------------------------------
(* The store's frame, under SpecRequests *)

\* the fields upload_document writes
StoredFields ==
    {"filename", "uploadDate", "rawText", "documentType", "isDiabetesReport",
     "reportDate", "metrics", "validationStatus"}

\* the step answers an upload that stored the document id
UploadAnswered(id) ==
    /\ response'.some
    /\ response'.val.status = 200
    /\ "documentType" \in DOMAIN response'.val
    /\ response'.val.documentId = id
    /\ DOMAIN docs'[id] = StoredFields

\* the step answers a delete of the document id
DeleteAnswered(id) ==
    /\ request' = Some(id)
    /\ response'.some
    /\ response'.val = [status |-> 200, success |-> TRUE, documentId |-> id]

\* C22: after any sequence of upload, get, list, explain, chart-data and
\* delete requests the stored fields of a document are those written at its
\* upload: no step changes a document that stays in the store or gives it a
\* field (a severity, a trend) it was not uploaded with, only an answered
\* upload adds a document and only an answered delete removes one.
C22_StoreFrame ==
    [][ /\ \A id \in DOMAIN docs \cap DOMAIN docs' : docs'[id] = docs[id]
        /\ \A id \in DOMAIN docs' \ DOMAIN docs : UploadAnswered(id)
        /\ \A id \in DOMAIN docs \ DOMAIN docs' : DeleteAnswered(id) ]_vars

\* an explain request has been answered with an analysis for a document of
\* a store that an upload filled and a delete emptied before
C22_Witness ==
    /\ Cardinality(DOMAIN docs) < clock - 1
    /\ request.some /\ request.val \in DOMAIN docs
    /\ response.some
    /\ "aiAnalysis" \in DOMAIN response.val

\* a chart has been answered with a point of a stored document
C22_WitnessChart ==
    /\ response.some
    /\ "timeline" \in DOMAIN response.val
    /\ response.val.timeline # <<>>

----------------------------------------------------------------------------
(* The not-found outcome, under SpecRequests *)

\* the step answers a request that names a document the store does not have
MissingAnswered ==
    /\ ~response.some
    /\ response'.some
    /\ request'.some
    /\ request'.val \notin DOMAIN docs

\* C25: a request for a document id that is not in the store, never uploaded
\* or already deleted, is answered with status 404 'Document not found' by
\* get_document, explain_document and delete_document alike, and never with
\* a 500.
C25_MissingIs404 ==
    [][ MissingAnswered => response'.val = HttpError(404, "Document not found") ]_vars

\* what the code does: explain_document and delete_document answer 404,
\* get_document answers 500 with the text of its own 404
C25_MissingIs404Or500 ==
    [][ MissingAnswered =>
            response'.val \in { HttpError(404, "Document not found"),
                                HttpError(500, "404: Document not found") } ]_vars

----------------------------------------------------------------------------
(* The prompt the model receives, under SpecExplain *)

\* the characters of a part of the prompt that generate_content received
Delivered(name) ==
    LET parts == SelectSeq(prompt.val, LAMBDA p : p.part = name)
    IN IF parts = <<>> THEN 0 ELSE parts[1].chars

\* the characters of the first 3000 of the raw text
RawTextSent == 
    IF RawChars(RequestedDoc.rawText) <= RawTextLimit THEN RawChars(RequestedDoc.rawText)
    ELSE RawTextLimit

\* C23: the text that explain_document delivers to the AI model contains the
\* first 3000 characters of the document's raw text, the rendered
\* metrics_summary and the JSON-format instructions after them, whatever the
\* length of the raw text: nothing on the way to the model cuts the prompt.
C23_PromptDelivered ==
    prompt.some =>
        /\ Delivered("raw_text") = RawTextSent
        /\ Delivered("metrics_summary") = MetricsSummaryChars(RequestedDoc.metrics)
        /\ Delivered("instructions") = InstructionChars

\* what the code does: the model receives the first 1000 characters of the
\* prompt, so at most 904 characters of the raw text, the metrics_summary
\* only after a raw text of fewer than 884 characters, and never all the
\* instructions
C23_FirstThousand ==
    prompt.some =>
        /\ Delivered("header") + Delivered("raw_text") + Delivered("values_label")
           + Delivered("metrics_summary") + Delivered("instructions") = SummarizeLimit
        /\ Delivered("raw_text") =
                (IF RawTextSent <= SummarizeLimit - HeaderChars THEN RawTextSent
                 ELSE SummarizeLimit - HeaderChars)
        /\ Delivered("metrics_summary") = MetricsSummaryChars(RequestedDoc.metrics)
                => RawTextSent < SummarizeLimit - HeaderChars - ValuesLabelChars
        /\ Delivered("instructions") < InstructionChars

----------------------------------------------------------------------------
(* The fallback's thresholds against the Severity Assessor's, under        *)
(* SpecFallback                                                            *)

\* the assessor rates the metric at one of the levels
Rated(key, levels) ==
    LET severity == assess_metric_severity(metrics).severity
    IN key \in DOMAIN severity /\ severity[key].level \in levels

\* the fallback's summary has a finding about the metric with the word
Finds(key, word) ==
    \E i \in DOMAIN Analysis.summary.findings :
        /\ Analysis.summary.findings[i].value = metrics[key]
        /\ Analysis.summary.findings[i].word = word
        /\ Analysis.summary.findings[i].q =
                (IF key = "hba1c" THEN "HbA1c of ..."
                 ELSE "fasting glucose of ... is elevated")

\* the alerts the assessor's CRITICAL levels of hba1c and glucose ask for
CriticalExpected ==
    (IF Rated("hba1c", {"CRITICAL"})
     THEN << Fixed("HbA1c is critically high") >> ELSE <<>>)
    \o (IF Rated("glucose", {"CRITICAL"})
        THEN << Fixed("Fasting glucose is dangerously high") >> ELSE <<>>)

\* C24: for every mapping whose hba1c and glucose parse, the fallback's
\* thresholds agree with the assessor's: hba1c is called diabetes iff the
\* level is WARNING or CRITICAL, prediabetes iff ELEVATED, normal range iff
\* NORMAL; glucose is flagged diabetes range iff WARNING or CRITICAL and
\* prediabetes range iff ELEVATED; criticalAlerts is non-null exactly when
\* hba1c or glucose is CRITICAL, one entry per such metric, hba1c first.
C24_ThresholdsAgree ==
    Returned =>
        /\ Truthy(metrics, "hba1c") =>
            /\ Finds("hba1c", "indicates diabetes") <=> Rated("hba1c", {"WARNING", "CRITICAL"})
            /\ Finds("hba1c", "indicates prediabetes") <=> Rated("hba1c", {"ELEVATED"})
            /\ Finds("hba1c", "is in normal range") <=> Rated("hba1c", {"NORMAL"})
        /\ Truthy(metrics, "glucose") =>
            /\ Finds("glucose", "diabetes range") <=> Rated("glucose", {"WARNING", "CRITICAL"})
            /\ Finds("glucose", "prediabetes range") <=> Rated("glucose", {"ELEVATED"})
        /\ Analysis.criticalAlerts.some <=> CriticalExpected # <<>>
        /\ Analysis.criticalAlerts.some => Analysis.criticalAlerts.val = CriticalExpected

\* both metrics at CRITICAL: two alerts
C24_Witness ==
    /\ Returned
    /\ Rated("hba1c", {"CRITICAL"})
    /\ Rated("glucose", {"CRITICAL"})
    /\ Len(Analysis.criticalAlerts.val) = 2

\* hba1c on the diabetes threshold, glucose on the prediabetes threshold
C24_WitnessThresholds ==
    /\ Returned
    /\ Truthy(metrics, "hba1c") /\ metrics["hba1c"] = Hba1cStr(65)
    /\ Rated("glucose", {"ELEVATED"})
    /\ Finds("hba1c", "indicates diabetes")
    /\ Finds("glucose", "prediabetes range")

====
